---- MODULE Spec2Model ----
(***************************************************************************)
(* Model of linkedin_mcp_server/scraping/extractor.py: the noise stripping *)
(* of page text, the extract/retry state machine around it, the section    *)
(* scrapers built on it and the action methods that script the page.       *)
(*                                                                         *)
(* Text is a sequence of tokens.  A token is one character class or one    *)
(* literal phrase of the noise-marker patterns:                            *)
(*   "x"        a character that is not whitespace and starts no marker    *)
(*   "sp"       a blank (whitespace other than a newline)                  *)
(*   "nl"       a newline                                                  *)
(*   "About"    the phrase "About"                                         *)
(*   "Access"   the phrase "Accessibility"                                 *)
(*   "Talent"   the phrase "Talent Solutions"                              *)
(*   "More"     the phrase "More profiles for you"                         *)
(*   "Explore"  the phrase "Explore premium profiles"                      *)
(*   "GetUpTo"  the phrase "Get up to"                                     *)
(*   "Replies"  the phrase "replies when you message with InMail"          *)
(***************************************************************************)
EXTENDS Integers, Sequences, FiniteSets, TLC

\* ------------------------------------------------------------------ bounds
MaxLen == 5

Alphabet ==
    {"x", "sp", "nl", "About", "Access", "Talent", "More", "Explore", "GetUpTo", "Replies"}

Whitespace == {"sp", "nl"}

\* ------------------------------------------------- regular expression parts
\* re.MULTILINE "^": at the start of the text or right after a newline
LineStart(t, i) == i = 1 \/ t[i - 1] = "nl"

\* re.MULTILINE "$" after the token at position j: end of text or before a newline
LineEnd(t, j) == j = Len(t) \/ t[j + 1] = "nl"

\* ^About\n+(?:Accessibility|Talent Solutions)
MatchAbout(t, i) ==
    /\ LineStart(t, i)
    /\ t[i] = "About"
    /\ \E j \in (i + 2)..Len(t) :
          /\ t[j] \in {"Access", "Talent"}
          /\ \A k \in (i + 1)..(j - 1) : t[k] = "nl"

\* ^More profiles for you$
MatchMore(t, i) == LineStart(t, i) /\ t[i] = "More" /\ LineEnd(t, i)

\* ^Explore premium profiles$
MatchExplore(t, i) == LineStart(t, i) /\ t[i] = "Explore" /\ LineEnd(t, i)

\* ^Get up to .+ replies when you message with InMail$
\* "Get up to", a blank, one or more characters of the same line, a blank,
\* "replies when you message with InMail", end of line
MatchInMail(t, i) ==
    /\ LineStart(t, i)
    /\ t[i] = "GetUpTo"
    /\ i + 1 <= Len(t)
    /\ t[i + 1] = "sp"
    /\ \E j \in (i + 4)..Len(t) :
          /\ t[j] = "Replies"
          /\ t[j - 1] = "sp"
          /\ \A k \in (i + 2)..(j - 2) : t[k] # "nl"
          /\ LineEnd(t, j)

_NOISE_MARKERS == <<"About", "More", "Explore", "InMail">>

MatchAt(pattern, t, i) ==
    CASE pattern = "About"   -> MatchAbout(t, i)
      [] pattern = "More"    -> MatchMore(t, i)
      [] pattern = "Explore" -> MatchExplore(t, i)
      [] pattern = "InMail"  -> MatchInMail(t, i)

\* pattern.search(text): the start of the leftmost match, 0 for None
Search(pattern, t) ==
    LET hits == {i \in 1..Len(t) : MatchAt(pattern, t, i)}
    IN  IF hits = {} THEN 0 ELSE CHOOSE i \in hits : \A h \in hits : i <= h

\* str.strip(): drop leading and trailing whitespace
RECURSIVE LStrip(_)
LStrip(t) == IF t # <<>> /\ Head(t) \in Whitespace THEN LStrip(Tail(t)) ELSE t

RECURSIVE RStrip(_)
RStrip(t) ==
    IF t # <<>> /\ t[Len(t)] \in Whitespace THEN RStrip(SubSeq(t, 1, Len(t) - 1)) ELSE t

Strip(t) == LStrip(RStrip(t))

\* variant: the last marker of the list that matches decides the cut
RECURSIVE EarliestFromListOrder(_, _, _)
EarliestFromListOrder(t, n, earliest) ==
    IF n > Len(_NOISE_MARKERS) THEN earliest
    ELSE LET match == Search(_NOISE_MARKERS[n], t)
         IN  EarliestFromListOrder(t, n + 1, IF match # 0 THEN match ELSE earliest)

\* the loop of strip_linkedin_noise over _NOISE_MARKERS[n..]; earliest is the
\* 1-based position of the cut, Len(text) + 1 when nothing is cut
RECURSIVE EarliestFrom(_, _, _)
EarliestFrom(t, n, earliest) ==
    IF n > Len(_NOISE_MARKERS) THEN earliest
    ELSE LET match == Search(_NOISE_MARKERS[n], t)
         IN  EarliestFrom(t, n + 1,
                          IF match # 0 /\ match < earliest THEN match ELSE earliest)

Earliest(t) == EarliestFrom(t, 1, Len(t) + 1)

\* variant: the cut text is returned untrimmed
strip_linkedin_noise_untrimmed(t) == SubSeq(t, 1, Earliest(t) - 1)

strip_linkedin_noise(t) == Strip(SubSeq(t, 1, Earliest(t) - 1))

\* the person and company scrapers are called with at most this many flags
\* besides the base one
MaxSections == 1

\* a job page shows at most this many buttons
MaxButtons == 2

\* the Easy Apply modal shows a review step at most this many times, and a
\* disabled Submit button at most this many times
MaxReviews == 1
MaxStalls == 1

\* the list methods are called with a limit of at most this, on a page that
\* shows at most this many cards
MaxLimit == 120
MaxCards == 3

\* tool invocations in progress at once, and the job ids they may ask for
MaxTasks == 2
MaxJobs == 2

\* ---------------------------------------------------------------- constants
\* Returned as section text when LinkedIn rate-limits the page; a page may
\* itself show this very sentence, token "RateLimitedMsg"
_RATE_LIMITED_MSG == <<"RateLimitedMsg">>

\* seconds, in tenths
_NAV_DELAY == 20
_RATE_LIMIT_RETRY_DELAY == 50

\* easy_apply_complete: the modal loop runs at most this many times
max_steps == 10

EmptyText == <<>>

\* what the browser may show in the region that is read: nothing, blank
\* lines, content, site chrome only, content followed by chrome, the sentence
\* of the sentinel
RawPages ==
    {<<>>, <<"nl">>, <<"x">>, <<"More">>, <<"x", "nl", "More">>, <<"RateLimitedMsg">>}

\* exceptions: the scraper's own (LinkedInScraperException and subclasses)
\* and all the others
Classified == {"RateLimitError", "AuthenticationError"}
Others == {"PlaywrightTimeoutError", "Error"}
IsLinkedInScraperException(e) == e \in Classified

\* what each awaited call may raise
GotoRaises == {"PlaywrightTimeoutError", "Error"}
DetectRaises == {"RateLimitError"}
WaitRaises == {"PlaywrightTimeoutError", "Error"}
CallRaises == {"Error"}

\* ------------------------------------------------------------ section flags
BASIC_INFO == "BASIC_INFO"
ABOUT == "ABOUT"

PersonScrapingFields ==
    <<"BASIC_INFO", "EXPERIENCE", "EDUCATION", "INTERESTS", "HONORS", "LANGUAGES",
      "CONTACT_INFO">>

CompanyScrapingFields == <<"ABOUT", "POSTS", "JOBS">>

\* section name -> flag
PERSON_SECTION_MAP ==
    [n \in {"experience", "education", "interests", "honors", "languages", "contact_info"} |->
        CASE n = "experience"   -> "EXPERIENCE"
          [] n = "education"    -> "EDUCATION"
          [] n = "interests"    -> "INTERESTS"
          [] n = "honors"       -> "HONORS"
          [] n = "languages"    -> "LANGUAGES"
          [] n = "contact_info" -> "CONTACT_INFO"]

COMPANY_SECTION_MAP ==
    [n \in {"posts", "jobs"} |-> IF n = "posts" THEN "POSTS" ELSE "JOBS"]

\* (flag, section_name, url_suffix, is_overlay)
PersonPageMap ==
    << <<"BASIC_INFO",   "main_profile", "/",                     FALSE>>,
       <<"EXPERIENCE",   "experience",   "/details/experience/",  FALSE>>,
       <<"EDUCATION",    "education",    "/details/education/",   FALSE>>,
       <<"INTERESTS",    "interests",    "/details/interests/",   FALSE>>,
       <<"HONORS",       "honors",       "/details/honors/",      FALSE>>,
       <<"LANGUAGES",    "languages",    "/details/languages/",   FALSE>>,
       <<"CONTACT_INFO", "contact_info", "/overlay/contact-info/", TRUE>> >>

CompanyPageMap ==
    << <<"ABOUT", "about", "/about/", FALSE>>,
       <<"POSTS", "posts", "/posts/", FALSE>>,
       <<"JOBS",  "jobs",  "/jobs/",  FALSE>> >>

PersonBase == "https://www.linkedin.com/in/{username}"
CompanyBase == "https://www.linkedin.com/company/{company_name}"

Url(base, suffix) == <<base, suffix>>

\* ------------------------------------------------------------------- state
VARIABLES
    text,           \* strip_linkedin_noise: the argument
    stripped,       \* strip_linkedin_noise: the value returned
    op,             \* the extractor method in progress
    pc,             \* where it stands
    note,           \* connect_with_person: whether a note was given
    arg,            \* scrape_person/scrape_company: the flags as passed
    fields,         \* scrape_person/scrape_company: the flags, after the |=
    idx,            \* scrape_person/scrape_company: position in page_map
    section,        \* the section being extracted
    ex,             \* the extraction path in progress
    url,            \* its target
    attempt,        \* how many single attempts it has begun
    raws,           \* the raw text read by each of them
    once,           \* the value returned by each of them
    result,         \* the value returned by the extraction path
    exc,            \* the exception it raised
    extracted,      \* the extractions that returned: section, path, raw texts read,
                    \* what the page was (or "error"), value returned
    thrown,         \* the exceptions raised by the calls of the extraction or method
    sections,       \* scrape result under construction
    pages_visited,
    log,            \* the calls made on the page and the sleeps, in order
    ret,            \* what the method gave its caller
    waited,         \* how the wait for the selector ended in the attempt in progress
    limit,          \* the list methods: the limit as passed
    current_step,   \* easy_apply_complete: iterations of the modal loop begun
    steps_completed,
    seen,           \* the action methods: what the last query of the page answered
    tool,           \* the tool wrapper in progress
    tpc,            \* where it stands
    texc,           \* the exception that reached its except clause
    tret,           \* what the wrapper gave the calling agent
    tasks,          \* concurrent tool invocations: where each stands, what it read
    location        \* the one shared page: the URL it shows

vars ==
    <<text, stripped, op, pc, note, arg, fields, idx, section, ex, url, attempt, raws, once,
      result, exc, extracted, thrown, sections, pages_visited, log, ret, waited, limit,
      current_step, steps_completed, seen, tool, tpc, texc, tret, tasks, location>>

machine ==
    <<op, pc, note, arg, fields, idx, section, ex, url, attempt, raws, once, result, exc,
      extracted, thrown, sections, pages_visited, log, ret, waited, limit, current_step,
      steps_completed, seen>>

\* the tool wrapper and the concurrent invocations
wrapper == <<tool, tpc, texc, tret>>
invocations == <<tasks, location>>

\* what a step of an extractor method leaves alone besides its own variables
outside == <<text, stripped, wrapper, invocations>>
apart == <<outside, limit, current_step, steps_completed, seen>>

\* the variables of the extraction paths and scrapers, which the action
\* methods do not use
scraping ==
    <<arg, fields, idx, section, ex, attempt, raws, once, sections, pages_visited, waited>>

NotRun == <<"not run">>
NoUrl == <<>>
EmptyMap == [n \in {} |-> EmptyText]
NoRet == [kind |-> "none"]
Value(v) == [kind |-> "value", value |-> v]
Raised(e) == [kind |-> "raise", exception |-> e]

ScrapeOps == {"scrape_person", "scrape_company"}
SingleOps == {"scrape_job", "search_jobs", "search_posts", "search_people"}
DirectOps == {"extract_page", "_extract_overlay"}
ListOps ==
    {"get_connections", "get_notifications", "get_saved_jobs", "get_applied_jobs",
     "get_company_jobs", "get_company_employees"}

ActionOps ==
    {"connect_with_person", "send_message", "save_job", "apply_to_job", "easy_apply_complete",
     "add_skill"} \cup ListOps

MachineIdle ==
    /\ op = "idle"
    /\ pc = "idle"
    /\ note = FALSE
    /\ arg = {}
    /\ fields = {}
    /\ idx = 0
    /\ section = ""
    /\ ex = "none"
    /\ url = NoUrl
    /\ attempt = 0
    /\ raws = <<>>
    /\ once = <<>>
    /\ result = EmptyText
    /\ exc = "none"
    /\ extracted = <<>>
    /\ thrown = <<>>
    /\ sections = EmptyMap
    /\ pages_visited = <<>>
    /\ log = <<>>
    /\ ret = NoRet
    /\ waited = "none"
    /\ limit = 0
    /\ current_step = 0
    /\ steps_completed = <<>>
    /\ seen = NoRet

\* the extractor method each tool calls
ToolOp(t) ==
    CASE t = "get_person_profile"  -> "scrape_person"
      [] t = "get_company_profile" -> "scrape_company"
      [] t = "get_company_posts"   -> "extract_page"
      [] t = "get_job_details"     -> "scrape_job"
      [] OTHER                     -> t

Tools ==
    {"get_company_profile", "get_company_posts", "get_job_details", "search_jobs", "search_posts", "search_people", "connect_with_person", "send_message",
     "save_job", "apply_to_job", "easy_apply_complete", "add_skill"}

\* method o is called now: by the wrapper in progress, or with no wrapper
Invoked(o) == IF tpc = "none" THEN TRUE ELSE tpc = "op" /\ ToolOp(tool) = o

NoWrapper ==
    /\ tool = "none"
    /\ tpc = "none"
    /\ texc = "none"
    /\ tret = NoRet

NoInvocations ==
    /\ tasks = <<>>
    /\ location = NoUrl

\* ------------------------------------------- strip_linkedin_noise on its own
InitStrip ==
    /\ \E k \in 0..MaxLen : text \in [1..k -> Alphabet]
    /\ stripped = NotRun
    /\ MachineIdle
    /\ NoWrapper
    /\ NoInvocations

StripNoise ==
    /\ stripped = NotRun
    /\ stripped' = strip_linkedin_noise(text)
    /\ UNCHANGED <<text, machine, wrapper, invocations>>

NextStrip == StripNoise

SpecStrip == InitStrip /\ [][NextStrip]_vars

\* ------------------------------------------------------ the extraction paths
\* variant: without the test of raw.strip()
OnceResultUnstripped(raw) ==
    IF raw = EmptyText THEN EmptyText
    ELSE LET cleaned == strip_linkedin_noise(raw)
         IN  IF cleaned = EmptyText THEN _RATE_LIMITED_MSG ELSE cleaned

\* variant: chrome-only text is returned as it is cleaned, no sentinel
OnceResultCleaned(raw) == IF raw = EmptyText THEN EmptyText ELSE strip_linkedin_noise(raw)

\* the tail of _extract_page_once, _extract_overlay_once, _extract_posts_page
\* and _extract_people_search_page: from the raw text to the value returned
OnceResult(raw) ==
    IF raw = EmptyText THEN EmptyText
    ELSE LET cleaned == strip_linkedin_noise(raw)
         IN  IF cleaned = EmptyText /\ Strip(raw) # EmptyText
             THEN _RATE_LIMITED_MSG
             ELSE cleaned

\* what page.evaluate hands back for a region showing `page`: the overlay
\* script trims it in the browser, the others do not
Evaluated(kind, page) == IF kind = "overlay" THEN Strip(page) ELSE page

\* variant: a second soft rate limit is retried as well
RetriesTwice(kind, n, r) == kind \in {"page", "overlay"} /\ n <= 2 /\ r = _RATE_LIMITED_MSG

\* variant: only extract_page retries
RetriesPageOnly(kind, n, r) == kind = "page" /\ n = 1 /\ r = _RATE_LIMITED_MSG

\* extract_page/_extract_overlay: `if result != _RATE_LIMITED_MSG: return result`
Retries(kind, n, r) == kind \in {"page", "overlay"} /\ n = 1 /\ r = _RATE_LIMITED_MSG

\* variant: without `except LinkedInScraperException: raise`
IsolatesAll(kind, e) == kind \in {"page", "overlay"}

\* the except clauses of extract_page/_extract_overlay; the search page
\* readers have none
Isolates(kind, e) == kind \in {"page", "overlay"} /\ ~IsLinkedInScraperException(e)

\* what the page was: nothing but site chrome, nothing at all, or content
OutcomeOf(raw) ==
    IF strip_linkedin_noise(raw) = EmptyText /\ Strip(raw) # EmptyText THEN "blocked"
    ELSE IF Strip(raw) = EmptyText THEN "empty"
    ELSE "clean"

StartExtract(kind, u, name) ==
    /\ ex' = kind
    /\ url' = u
    /\ section' = name
    /\ attempt' = 1
    /\ raws' = <<>>
    /\ once' = <<>>
    /\ result' = EmptyText
    /\ exc' = "none"
    /\ thrown' = <<>>
    /\ waited' = "none"
    /\ pc' = "goto"

\* the extraction path returns v
Finish(v, outcome, read) ==
    /\ pc' = "returned"
    /\ result' = v
    /\ extracted' = Append(extracted, [section |-> section, path |-> ex, raws |-> read,
                                        outcome |-> outcome, value |-> v])
    /\ UNCHANGED <<exc, ret>>

ErrorRecord(msg) == [status |-> "error", message |-> msg]

\* an awaited call raises e where no inner try encloses it
Throw(e) ==
    /\ thrown' = Append(thrown, e)
    /\ IF op \in ActionOps
       THEN \* except Exception as e: return {"status": "error", ...}
            /\ pc' = "done"
            /\ ret' = Value(ErrorRecord("Error"))
            /\ UNCHANGED <<result, exc, extracted>>
       ELSE IF Isolates(ex, e)
       THEN Finish(EmptyText, "error", raws)
       ELSE /\ pc' = "raised"
            /\ exc' = e
            /\ UNCHANGED <<result, ret, extracted>>

Step(next) ==
    /\ pc' = next
    /\ UNCHANGED <<result, exc, ret, extracted, thrown>>

\* self._page.goto(url, wait_until="domcontentloaded", timeout=30000)
Goto ==
    /\ pc = "goto"
    /\ log' = Append(log, <<"goto", url>>)
    /\ \/ Step("detect")
       \/ \E e \in GotoRaises : Throw(e)
    /\ UNCHANGED <<apart, waited, op, note, arg, fields, idx, section, ex, url, attempt, raws,
                   once, sections, pages_visited>>

\* detect_rate_limit(self._page)
DetectRateLimit ==
    /\ pc = "detect"
    /\ log' = Append(log, <<"detect_rate_limit">>)
    /\ \/ Step(IF ex = "none" THEN "settle" ELSE "wait")
       \/ \E e \in DetectRaises : Throw(e)
    /\ UNCHANGED <<apart, waited, op, note, arg, fields, idx, section, ex, url, attempt, raws,
                   once, sections, pages_visited>>

\* variant: the text is read right after the wait
AfterWaitReads(kind) == "evaluate"

\* what follows the wait: _extract_page_once dismisses modals and scrolls
\* before it reads, _extract_overlay_once reads at once
AfterWait(kind) == IF kind = "overlay" THEN "evaluate" ELSE "modal"

\* wait_for_selector in its own try: a timeout is logged and the attempt goes on
WaitForSelector ==
    /\ pc = "wait"
    /\ log' = Append(log, <<"wait_for_selector">>)
    /\ \/ \E outcome \in {"found", "PlaywrightTimeoutError"} :
             /\ waited' = outcome
             /\ Step(AfterWait(ex))
       \/ /\ \E e \in WaitRaises \ {"PlaywrightTimeoutError"} : Throw(e)
          /\ waited' = "Error"
    /\ UNCHANGED <<apart, op, note, arg, fields, idx, section, ex, url, attempt, raws,
                   once, sections, pages_visited>>

\* handle_modal_close(self._page)
ModalClose ==
    /\ pc = "modal"
    /\ log' = Append(log, <<"handle_modal_close">>)
    /\ \/ Step("scroll")
       \/ \E e \in CallRaises : Throw(e)
    /\ UNCHANGED <<apart, waited, op, note, arg, fields, idx, section, ex, url, attempt, raws,
                   once, sections, pages_visited>>

\* scroll_to_bottom(self._page, ...)
ScrollToBottom ==
    /\ pc = "scroll"
    /\ log' = Append(log, <<"scroll_to_bottom">>)
    /\ \/ Step("evaluate")
       \/ \E e \in CallRaises : Throw(e)
    /\ UNCHANGED <<apart, waited, op, note, arg, fields, idx, section, ex, url, attempt, raws,
                   once, sections, pages_visited>>

\* page.evaluate reads the region; the attempt returns; the caller of the
\* attempt returns its value or goes on to the backoff
Evaluate ==
    /\ pc = "evaluate"
    /\ log' = Append(log, <<"evaluate">>)
    /\ \/ \E page \in RawPages :
             LET raw == Evaluated(ex, page)
                 r == OnceResult(raw)
             IN  /\ raws' = Append(raws, raw)
                 /\ once' = Append(once, r)
                 /\ thrown' = thrown
                 /\ IF Retries(ex, attempt, r)
                    THEN /\ pc' = "backoff"
                         /\ UNCHANGED <<result, exc, ret, extracted>>
                    ELSE Finish(r, OutcomeOf(raw), Append(raws, raw))
       \/ /\ \E e \in CallRaises : Throw(e)
          /\ UNCHANGED <<raws, once>>
    /\ UNCHANGED <<apart, waited, op, note, arg, fields, idx, section, ex, url, attempt,
                   sections, pages_visited>>

\* asyncio.sleep(_RATE_LIMIT_RETRY_DELAY), then the second attempt begins
Backoff ==
    /\ pc = "backoff"
    /\ log' = Append(log, <<"sleep", _RATE_LIMIT_RETRY_DELAY>>)
    /\ attempt' = attempt + 1
    /\ waited' = "none"
    /\ pc' = "goto"
    /\ UNCHANGED <<apart, op, note, arg, fields, idx, section, ex, url, raws, once,
                   result, exc, extracted, thrown, sections, pages_visited, ret>>

\* ------------------------------------------------ scrape_person, scrape_company
PageMap(o) == IF o = "scrape_person" THEN PersonPageMap ELSE CompanyPageMap
BaseUrl(o) == IF o = "scrape_person" THEN PersonBase ELSE CompanyBase
BaseFlag(o) == IF o = "scrape_person" THEN BASIC_INFO ELSE ABOUT
BaseName(o) == IF o = "scrape_person" THEN "main_profile" ELSE "about"
FlagsOf(o) == IF o = "scrape_person" THEN PersonScrapingFields ELSE CompanyScrapingFields
SectionMap(o) == IF o = "scrape_person" THEN PERSON_SECTION_MAP ELSE COMPANY_SECTION_MAP

Range(q) == {q[i] : i \in DOMAIN q}

\* variant: the flags are used as passed
WithoutBase(o, f) == f

\* fields |= PersonScrapingFields.BASIC_INFO, fields |= CompanyScrapingFields.ABOUT
WithBase(o, f) == f \cup {BaseFlag(o)}

\* the flags the callers' sets are drawn from: of a person the base, two of
\* the five detail pages (page_map treats the five alike) and the overlay; of
\* a company every flag
SampledFlags(o) ==
    IF o = "scrape_person"
        THEN {f \in Range(FlagsOf(o)) : f \notin {"INTERESTS", "HONORS", "LANGUAGES"}}
        ELSE Range(FlagsOf(o))

\* the flag sets a caller may pass
FlagSets(o) ==
    {f \in SUBSET SampledFlags(o) : Cardinality(f \ {BaseFlag(o)}) <= MaxSections}

\* requested = [base] + [reverse_map[flag] for flag in Flags if flag in fields
\*                                                      and flag in reverse_map]
RECURSIVE RequestedFrom(_, _, _)
RequestedFrom(o, f, n) ==
    IF n > Len(FlagsOf(o)) THEN <<>>
    ELSE LET flag == FlagsOf(o)[n]
             names == {k \in DOMAIN SectionMap(o) : SectionMap(o)[k] = flag}
         IN  (IF flag \in f /\ names # {} THEN <<CHOOSE k \in names : TRUE>> ELSE <<>>)
                \o RequestedFrom(o, f, n + 1)

Requested(o, f) == <<BaseName(o)>> \o RequestedFrom(o, f, 1)

\* variant: the loop without `if not (flag & fields): continue`
SelectedAll(o, f, i) == (i + 1)..Len(PageMap(o))

\* the entries of page_map after position i whose flag is selected
Selected(o, f, i) == {j \in (i + 1)..Len(PageMap(o)) : PageMap(o)[j][1] \in f}

ScrapeResult(o, secs, visited, f) ==
    [url |-> Url(BaseUrl(o), "/"),
     sections |-> secs,
     pages_visited |-> visited,
     sections_requested |-> Requested(o, f)]

CallScrape(o) ==
    /\ pc = "idle"
    /\ o \in ScrapeOps
    /\ Invoked(o)
    /\ \E f \in FlagSets(o) :
          /\ op' = o
          /\ arg' = f
          /\ fields' = WithBase(o, f)
          /\ idx' = 0
          /\ pc' = "section"
    /\ UNCHANGED <<apart, waited, note, section, ex, url, attempt, raws, once, result, exc,
                   extracted, thrown, sections, pages_visited, log, ret>>

CallScrapePerson == CallScrape("scrape_person")

CallScrapeCompany == CallScrape("scrape_company")

\* the head of the for loop: skip the entries whose flag is not selected,
\* extract the next selected one, or leave the loop and return
NextSection ==
    /\ pc = "section"
    /\ op \in ScrapeOps
    /\ LET rest == Selected(op, fields, idx)
       IN  IF rest # {}
           THEN LET j == CHOOSE k \in rest : \A m \in rest : k <= m
                    entry == PageMap(op)[j]
                IN  /\ idx' = j
                    /\ StartExtract(IF entry[4] THEN "overlay" ELSE "page",
                                    Url(BaseUrl(op), entry[3]), entry[2])
                    /\ UNCHANGED ret
           ELSE /\ pc' = "done"
                /\ ret' = Value(ScrapeResult(op, sections, pages_visited, fields))
                /\ UNCHANGED <<idx, section, ex, url, attempt, raws, once, result, exc,
                               thrown, waited>>
    /\ UNCHANGED <<apart, op, note, arg, fields, extracted, sections, pages_visited, log>>

\* variant: the text is stored whether empty or not
StoredAlways(secs, name, t) ==
    [n \in DOMAIN secs \cup {name} |-> IF n = name THEN t ELSE secs[n]]

\* if text: sections[section_name] = text
Stored(secs, name, t) ==
    IF t # EmptyText
    THEN [n \in DOMAIN secs \cup {name} |-> IF n = name THEN t ELSE secs[n]]
    ELSE secs

\* variant: no delay after a section that gave nothing
SectionStoreHurried ==
    /\ pc = "returned"
    /\ op \in ScrapeOps
    /\ sections' = Stored(sections, section, result)
    /\ pages_visited' = Append(pages_visited, url)
    /\ pc' = IF result = EmptyText THEN "section" ELSE "nav_delay"
    /\ UNCHANGED <<apart, waited, op, note, arg, fields, idx, section, ex, url, attempt, raws,
                   once, result, exc, extracted, thrown, log, ret>>

\* the extraction returned: store the text, record the page
SectionStore ==
    /\ pc = "returned"
    /\ op \in ScrapeOps
    /\ sections' = Stored(sections, section, result)
    /\ pages_visited' = Append(pages_visited, url)
    /\ pc' = "nav_delay"
    /\ UNCHANGED <<apart, waited, op, note, arg, fields, idx, section, ex, url, attempt, raws,
                   once, result, exc, extracted, thrown, log, ret>>

\* the extraction raised: except LinkedInScraperException: raise;
\* except Exception: pages_visited.append(url)
SectionExcept ==
    /\ pc = "raised"
    /\ op \in ScrapeOps
    /\ IF IsLinkedInScraperException(exc)
       THEN /\ pc' = "done"
            /\ ret' = Raised(exc)
            /\ UNCHANGED pages_visited
       ELSE /\ pc' = "nav_delay"
            /\ pages_visited' = Append(pages_visited, url)
            /\ UNCHANGED ret
    /\ UNCHANGED <<apart, waited, op, note, arg, fields, idx, section, ex, url, attempt, raws,
                   once, result, exc, extracted, thrown, sections, log>>

\* asyncio.sleep(_NAV_DELAY)
NavDelay ==
    /\ pc = "nav_delay"
    /\ log' = Append(log, <<"sleep", _NAV_DELAY>>)
    /\ pc' = "section"
    /\ UNCHANGED <<apart, waited, op, note, arg, fields, idx, section, ex, url, attempt, raws,
                   once, result, exc, extracted, thrown, sections, pages_visited, ret>>

\* ---------------------- scrape_job, search_jobs, search_posts, search_people
SingleName(o) ==
    CASE o = "scrape_job"    -> "job_posting"
      [] o = "search_jobs"   -> "search_results"
      [] o = "search_posts"  -> "posts"
      [] o = "search_people" -> "people"

SinglePath(o) ==
    CASE o = "scrape_job"    -> "page"
      [] o = "search_jobs"   -> "page"
      [] o = "search_posts"  -> "posts"
      [] o = "search_people" -> "people"

\* the optional arguments that add a parameter to the query string
SingleOptions(o) ==
    CASE o = "scrape_job"    -> {}
      [] o = "search_jobs"   -> {"location"}
      [] o = "search_posts"  -> {"datePosted", "sortBy"}
      [] o = "search_people" -> {"network", "geoUrn", "currentCompany"}

SingleUrl(o, given) ==
    CASE o = "scrape_job"    -> <<"https://www.linkedin.com/jobs/view/{job_id}/", given>>
      [] o = "search_jobs"   -> <<"https://www.linkedin.com/jobs/search/", given>>
      [] o = "search_posts"  -> <<"https://www.linkedin.com/search/results/content/", given>>
      [] o = "search_people" -> <<"https://www.linkedin.com/search/results/people/", given>>

CallSingle(o) ==
    /\ pc = "idle"
    /\ o \in SingleOps
    /\ Invoked(o)
    /\ op' = o
    /\ \E given \in SUBSET SingleOptions(o) :
          StartExtract(SinglePath(o), SingleUrl(o, given), SingleName(o))
    /\ UNCHANGED <<apart, note, arg, fields, idx, extracted, sections, pages_visited, log,
                   ret>>

CallScrapeJob == CallSingle("scrape_job")

CallSearchJobs == CallSingle("search_jobs")

CallSearchPosts == CallSingle("search_posts")

CallSearchPeople == CallSingle("search_people")

\* sections = {}; if text: sections[name] = text; return {...}
SingleStore ==
    /\ pc = "returned"
    /\ op \in SingleOps
    /\ sections' = Stored(EmptyMap, section, result)
    /\ pages_visited' = <<url>>
    /\ ret' = Value([url |-> url,
                     sections |-> sections',
                     pages_visited |-> pages_visited',
                     sections_requested |-> <<section>>])
    /\ pc' = "done"
    /\ UNCHANGED <<apart, waited, op, note, arg, fields, idx, section, ex, url, attempt, raws,
                   once, result, exc, extracted, thrown, log>>

\* ------------------------------- extract_page, _extract_overlay called alone
CallExtract(o) ==
    /\ pc = "idle"
    /\ o \in DirectOps
    /\ Invoked(o)
    /\ op' = o
    /\ StartExtract(IF o = "extract_page" THEN "page" ELSE "overlay",
                    <<"https://www.linkedin.com/", {}>>, "")
    /\ UNCHANGED <<apart, note, arg, fields, idx, extracted, sections, pages_visited, log,
                   ret>>

CallExtractPage == CallExtract("extract_page")

CallExtractOverlay == CallExtract("_extract_overlay")

DirectReturn ==
    /\ pc = "returned"
    /\ op \in DirectOps
    /\ ret' = Value(result)
    /\ pc' = "done"
    /\ UNCHANGED <<apart, waited, op, note, arg, fields, idx, section, ex, url, attempt, raws,
                   once, result, exc, extracted, thrown, sections, pages_visited, log>>

\* no try around the extraction: its exception leaves the method
Propagate ==
    /\ pc = "raised"
    /\ op \in SingleOps \cup DirectOps
    /\ ret' = Raised(exc)
    /\ pc' = "done"
    /\ UNCHANGED <<apart, waited, op, note, arg, fields, idx, section, ex, url, attempt, raws,
                   once, result, exc, extracted, thrown, sections, pages_visited, log>>

\* ------------------------------------------------------------ action methods
ActionUrl(o) ==
    CASE o = "connect_with_person" ->
            <<"https://www.linkedin.com/preload/custom-invite/", {"vanityName"}>>
      [] o = "send_message" ->
            <<"https://www.linkedin.com/messaging/compose/", {"recipients"}>>
      [] o \in {"save_job", "apply_to_job", "easy_apply_complete"} ->
            <<"https://www.linkedin.com/jobs/view/{job_id}/", {}>>
      [] o = "add_skill" ->
            <<"https://www.linkedin.com/in/me/details/skills/", {}>>
      [] o = "get_connections" ->
            <<"https://www.linkedin.com/mynetwork/invite-connect/connections/", {}>>
      [] o = "get_notifications" ->
            <<"https://www.linkedin.com/notifications/", {"filter"}>>
      [] o = "get_saved_jobs" ->
            <<"https://www.linkedin.com/my-items/saved-jobs/", {}>>
      [] o = "get_applied_jobs" ->
            <<"https://www.linkedin.com/my-items/saved-jobs/", {}>>
      [] o = "get_company_jobs" ->
            <<"https://www.linkedin.com/company/{company_name}/jobs/", {}>>
      [] o = "get_company_employees" ->
            <<"https://www.linkedin.com/company/{company_name}/people/", {}>>

AfterSettle(o) ==
    CASE o = "connect_with_person" -> "dialog"
      [] o = "send_message"        -> "msg_wait"
      [] o = "save_job"            -> "save_click"
      [] o = "apply_to_job"        -> "apply_probe"
      [] o = "easy_apply_complete" -> "easy_click"
      [] o = "add_skill"           -> "skill_add"
      [] o \in ListOps             -> "list_prepare"

CallAction(o, withNote) ==
    /\ pc = "idle"
    /\ o \in ActionOps
    /\ Invoked(o)
    /\ op' = o
    /\ note' = withNote
    /\ url' = ActionUrl(o)
    /\ pc' = "goto"
    /\ UNCHANGED <<apart, waited, arg, fields, idx, section, ex, attempt, raws, once,
                   result, exc, extracted, thrown, sections, pages_visited, log, ret>>

CallConnectWithPerson == \E withNote \in BOOLEAN : CallAction("connect_with_person", withNote)

CallSendMessage == CallAction("send_message", FALSE)

CallSaveJob == CallAction("save_job", FALSE)

CallApplyToJob == CallAction("apply_to_job", FALSE)

\* easy_apply_complete(job_id, phone_number, answers): what every step of the
\* flow will record as filled in, "questions_answered" when answers are given,
\* "phone_number" and "resume_selected" when the number is given and the
\* text of the dialog mentions them (the text is taken to mention the same
\* fields at every step)
FormKinds == <<"phone_number", "resume_selected", "questions_answered">>

CallEasyApplyComplete ==
    /\ pc = "idle"
    /\ Invoked("easy_apply_complete")
    /\ op' = "easy_apply_complete"
    /\ url' = ActionUrl("easy_apply_complete")
    /\ \E filled \in SUBSET Range(FormKinds) : arg' = filled
    /\ pc' = "goto"
    /\ UNCHANGED <<apart, waited, note, fields, idx, section, ex, attempt, raws, once,
                   result, exc, extracted, thrown, sections, pages_visited, log, ret>>

CallAddSkill == CallAction("add_skill", FALSE)

\* asyncio.sleep(2) after the navigation
Settle ==
    /\ pc = "settle"
    /\ op \in ActionOps
    /\ log' = Append(log, <<"sleep", 20>>)
    /\ pc' = AfterSettle(op)
    /\ UNCHANGED <<apart, waited, op, note, arg, fields, idx, section, ex, url, attempt, raws,
                   once, result, exc, extracted, thrown, sections, pages_visited, ret>>

Return(record) ==
    /\ pc' = "done"
    /\ ret' = Value(record)
    /\ UNCHANGED <<result, exc, extracted, thrown>>

\* an exception inside an inner try of an action method
Caught(e, record) ==
    /\ pc' = "done"
    /\ ret' = Value(record)
    /\ thrown' = Append(thrown, e)
    /\ UNCHANGED <<result, exc, extracted>>

\* save_job: find and click the Save button
SaveJobClick ==
    /\ pc = "save_click"
    /\ \/ /\ log' = Append(log, <<"evaluate">>)
          /\ \E e \in CallRaises : Throw(e)
       \/ \E wasSaved \in BOOLEAN :
             /\ log' = log \o << <<"evaluate">>, <<"click">>, <<"sleep", 10>> >>
             /\ Return([status |-> "success",
                        message |-> IF wasSaved THEN "Job unsaved successfully"
                                    ELSE "Job saved successfully"])
       \/ /\ log' = Append(log, <<"evaluate">>)
          /\ Return(ErrorRecord("Could not find Save button"))
    /\ UNCHANGED <<apart, waited, op, note, arg, fields, idx, section, ex, url, attempt, raws,
                   once, sections, pages_visited>>

\* send_message: wait for the compose area
MessageWait ==
    /\ pc = "msg_wait"
    /\ log' = Append(log, <<"wait_for">>)
    /\ \/ Step("msg_fill")
       \/ Caught("PlaywrightTimeoutError", ErrorRecord("Message compose area not found"))
       \/ \E e \in WaitRaises \ {"PlaywrightTimeoutError"} : Throw(e)
    /\ UNCHANGED <<apart, waited, op, note, arg, fields, idx, section, ex, url, attempt, raws,
                   once, sections, pages_visited>>

\* send_message: click the box and fill it
MessageFill ==
    /\ pc = "msg_fill"
    /\ \/ /\ log' = log \o << <<"click">>, <<"sleep", 3>>, <<"fill">>, <<"sleep", 5>> >>
          /\ Step("msg_send")
       \/ /\ log' = Append(log, <<"click">>)
          /\ \E e \in WaitRaises : Throw(e)
    /\ UNCHANGED <<apart, waited, op, note, arg, fields, idx, section, ex, url, attempt, raws,
                   once, sections, pages_visited>>

\* send_message: find and click the send button
MessageSend ==
    /\ pc = "msg_send"
    /\ \/ /\ log' = Append(log, <<"evaluate">>)
          /\ \E e \in CallRaises : Throw(e)
       \/ /\ log' = log \o << <<"evaluate">>, <<"click">>, <<"sleep", 20>> >>
          /\ Return([status |-> "success", message |-> "Message sent"])
       \/ /\ log' = Append(log, <<"evaluate">>)
          /\ Return(ErrorRecord("Could not find send button"))
    /\ UNCHANGED <<apart, waited, op, note, arg, fields, idx, section, ex, url, attempt, raws,
                   once, sections, pages_visited>>

DialogTypes ==
    {"invite_modal", "note_input_modal", "pending", "pending_on_page", "already_connected",
     "unknown"}

\* connect_with_person: read which dialog appeared and handle the simple ones
ConnectDialog ==
    /\ pc = "dialog"
    /\ log' = Append(log, <<"evaluate">>)
    /\ \/ \E e \in CallRaises : Throw(e)
       \/ \E type \in DialogTypes :
             IF type = "already_connected"
             THEN Return([status |-> "already_connected", message |-> "Already connected"])
             ELSE IF type \in {"pending", "pending_on_page"}
             THEN Return([status |-> "pending", message |-> "Connection request already pending"])
             ELSE IF type = "invite_modal"
             THEN Step("invite")
             ELSE Return(ErrorRecord("Could not determine invite modal state"))
    /\ UNCHANGED <<apart, waited, op, note, arg, fields, idx, section, ex, url, attempt, raws,
                   once, sections, pages_visited>>

\* connect_with_person: the invite modal, up to the click that sends
ConnectInvite ==
    /\ pc = "invite"
    /\ \/ \* the first evaluate of the branch raises
          /\ log' = Append(log, <<"evaluate">>)
          /\ \E e \in CallRaises : Throw(e)
       \/ \* no note, or no "Add a note" button: send without a note
          /\ log' = log \o (IF note THEN << <<"evaluate">> >> ELSE <<>>)
                        \o << <<"evaluate">> >>
          /\ \/ Step("verify")
             \/ /\ note
                /\ \E e \in CallRaises : Throw(e)
       \/ \* "Add a note" clicked
          /\ note
          /\ log' = log \o << <<"evaluate">>, <<"click">>, <<"sleep", 20>> >>
          /\ Step("note_fill")
    /\ UNCHANGED <<apart, waited, op, note, arg, fields, idx, section, ex, url, attempt, raws,
                   once, sections, pages_visited>>

\* connect_with_person: the inner try that fills the note and sends
ConnectNote ==
    /\ pc = "note_fill"
    /\ \/ /\ log' = Append(log, <<"wait_for">>)
          /\ \E e \in WaitRaises : Caught(e, ErrorRecord("Error filling note"))
       \/ /\ log' = log \o << <<"wait_for">>, <<"fill">>, <<"sleep", 5>>, <<"evaluate">> >>
          /\ \/ Step("verify")
             \/ \E e \in CallRaises : Caught(e, ErrorRecord("Error filling note"))
    /\ UNCHANGED <<apart, waited, op, note, arg, fields, idx, section, ex, url, attempt, raws,
                   once, sections, pages_visited>>

\* connect_with_person: wait and check whether the modal closed
ConnectVerify ==
    /\ pc = "verify"
    /\ log' = log \o << <<"sleep", 20>>, <<"evaluate">> >>
    /\ \/ \E e \in CallRaises : Throw(e)
       \/ Return([status |-> "success", message |-> "Connection request sent"])
       \/ Return([status |-> "partial", message |-> "Modal may still be visible"])
    /\ UNCHANGED <<apart, waited, op, note, arg, fields, idx, section, ex, url, attempt, raws,
                   once, sections, pages_visited>>

\* ------------------------------------------------------------- apply_to_job
ButtonKinds == {"easy_apply", "apply", "other"}

\* the buttons a job page may show, in document order
ButtonRows == UNION {[1..k -> ButtonKinds] : k \in 0..MaxButtons}

\* variant: the plain Apply button is clicked as well
ButtonAnswerClicks(kind) ==
    IF kind = "easy_apply" THEN [type |-> "easy_apply", clicked |-> TRUE]
    ELSE [type |-> "external", clicked |-> TRUE]

\* what the script of apply_to_job answers at a button that is an apply
\* control: Easy Apply is clicked, a plain Apply is only reported
ButtonAnswer(kind) ==
    IF kind = "easy_apply" THEN [type |-> "easy_apply", clicked |-> TRUE]
    ELSE [type |-> "external", clicked |-> FALSE]

\* the loop of the script over the buttons
RECURSIVE ApplyResult(_)
ApplyResult(buttons) ==
    IF buttons = <<>> THEN [type |-> "not_found", clicked |-> FALSE]
    ELSE IF Head(buttons) \in {"easy_apply", "apply"} THEN ButtonAnswer(Head(buttons))
    ELSE ApplyResult(Tail(buttons))

\* apply_to_job: look for the apply control, click it if it is Easy Apply
ApplyProbe ==
    /\ pc = "apply_probe"
    /\ \/ /\ log' = Append(log, <<"evaluate">>)
          /\ \E e \in CallRaises : Throw(e)
          /\ UNCHANGED seen
       \/ \E buttons \in ButtonRows :
             LET r == ApplyResult(buttons)
             IN  /\ seen' = [buttons |-> buttons, apply_result |-> r]
                 /\ log' = log \o << <<"evaluate">> >>
                               \o (IF r.clicked THEN << <<"click">> >> ELSE <<>>)
                 /\ IF r.type = "easy_apply" /\ r.clicked
                    THEN Step("apply_modal")
                    ELSE IF r.type = "external"
                    THEN Step("apply_external")
                    ELSE Return([status |-> "not_available",
                                 message |-> "No Apply button found"])
    /\ UNCHANGED <<outside, limit, current_step, steps_completed, op, note, url, scraping>>

\* apply_to_job: after the click, see whether the Easy Apply modal opened
ApplyModal ==
    /\ pc = "apply_modal"
    /\ log' = log \o << <<"sleep", 20>>, <<"evaluate">> >>
    /\ \/ \E e \in CallRaises : Throw(e)
       \/ \E opened \in BOOLEAN :
             IF opened
             THEN Return([status |-> "modal_opened", message |-> "Easy Apply modal opened"])
             ELSE Return([status |-> "clicked",
                          message |-> "Easy Apply button clicked but modal not detected"])
    /\ UNCHANGED <<apart, op, note, url, scraping>>

\* apply_to_job: read the link of the external application
ApplyExternal ==
    /\ pc = "apply_external"
    /\ log' = Append(log, <<"evaluate">>)
    /\ \/ \E e \in CallRaises : Throw(e)
       \/ Return([status |-> "external",
                  message |-> "This job requires external application"])
    /\ UNCHANGED <<apart, op, note, url, scraping>>

\* ------------------------------------------------------ easy_apply_complete
Entries(name) == {i \in DOMAIN steps_completed : steps_completed[i][1] = name}

\* the entries made for a button
ButtonEntries == Entries("submitted") \cup Entries("review") \cup Entries("step")

\* iterations that ended with nothing clicked: a Submit button that is disabled
Stalls == current_step - 1 - Cardinality(ButtonEntries)

\* steps_completed.append("phone_number"), ("resume_selected"),
\* ("questions_answered"), in this order, of one iteration
RECURSIVE FormSteps(_, _)
FormSteps(filled, k) ==
    IF k > Len(FormKinds) THEN <<>>
    ELSE (IF FormKinds[k] \in filled THEN << <<FormKinds[k]>> >> ELSE <<>>)
            \o FormSteps(filled, k + 1)

\* variant: the loop runs once more
LoopContinuesOnceMore(step) == step <= max_steps

\* while current_step < max_steps
LoopContinues(step) == step < max_steps

\* easy_apply_complete: find and click the Easy Apply button
EasyClick ==
    /\ pc = "easy_click"
    /\ \/ /\ log' = Append(log, <<"evaluate">>)
          /\ \E e \in CallRaises : Throw(e)
          /\ UNCHANGED <<seen, current_step, steps_completed>>
       \/ /\ seen' = [easy_apply_clicked |-> TRUE]
          /\ log' = log \o << <<"evaluate">>, <<"click">>, <<"sleep", 20>> >>
          /\ current_step' = 0
          /\ steps_completed' = <<>>
          /\ Step("easy_loop")
       \/ /\ seen' = [easy_apply_clicked |-> FALSE]
          /\ log' = Append(log, <<"evaluate">>)
          /\ Step("easy_external")
          /\ UNCHANGED <<current_step, steps_completed>>
    /\ UNCHANGED <<outside, limit, op, note, url, scraping>>

\* easy_apply_complete: no Easy Apply button, look for an apply link
EasyExternal ==
    /\ pc = "easy_external"
    /\ log' = Append(log, <<"evaluate">>)
    /\ \/ \E e \in CallRaises : Throw(e)
       \/ Return([status |-> "external",
                  message |-> "This job requires external application"])
       \/ Return([status |-> "not_available", message |-> "No Easy Apply button found"])
    /\ UNCHANGED <<apart, op, note, url, scraping>>

\* the dialogs the modal check may report: which buttons the dialog has
ModalInfos ==
    {[found |-> TRUE, has_submit |-> s, has_review |-> r, has_next |-> n] :
        s \in BOOLEAN, r \in BOOLEAN, n \in BOOLEAN}

Incomplete ==
    [status |-> "incomplete", message |-> "Easy Apply flow did not complete",
     steps_completed |-> steps_completed]

\* easy_apply_complete: the head of the while loop and the modal check.  The
\* calls made inside the loop are not put in the log.
EasyLoop ==
    /\ pc = "easy_loop"
    /\ IF LoopContinues(current_step)
       THEN /\ current_step' = current_step + 1
            /\ \/ /\ \E e \in CallRaises : Throw(e)
                  /\ UNCHANGED seen
               \/ /\ seen' = [found |-> FALSE]
                  /\ Step("easy_confirm")
               \/ \E info \in ModalInfos :
                     /\ (~info.has_submit /\ info.has_review) =>
                           Cardinality(Entries("review")) < MaxReviews
                     /\ seen' = info
                     /\ Step("easy_button")
       ELSE /\ Return(Incomplete)
            /\ UNCHANGED <<seen, current_step>>
    /\ UNCHANGED <<outside, limit, steps_completed, op, note, url, scraping, log>>

\* easy_apply_complete: the modal is gone, look for the confirmation text
EasyConfirm ==
    /\ pc = "easy_confirm"
    /\ \/ /\ \E e \in CallRaises : Throw(e)
          /\ UNCHANGED seen
       \/ /\ seen' = [found |-> FALSE, success_message |-> TRUE]
          /\ Return([status |-> "success", message |-> "Application submitted successfully",
                     steps_completed |-> steps_completed])
       \/ /\ seen' = [found |-> FALSE, success_message |-> FALSE]
          /\ Return(Incomplete)
    /\ UNCHANGED <<outside, limit, current_step, steps_completed, op, note, url, scraping, log>>

\* variant: the review button is looked for first
ButtonBranchReviewFirst(info) ==
    IF info.has_review THEN "review"
    ELSE IF info.has_submit THEN "submit"
    ELSE IF info.has_next THEN "next"
    ELSE "none"

\* if modal_info.get("has_submit") ... elif has_review ... elif has_next ...
\* else
ButtonBranch(info) ==
    IF info.has_submit THEN "submit"
    ELSE IF info.has_review THEN "review"
    ELSE IF info.has_next THEN "next"
    ELSE "none"

\* easy_apply_complete: fill phone, resume and answers where the dialog asks
\* for them, then click submit, review or next.  A Submit button that is
\* disabled is clicked by no branch; the modal shows one from the first step
\* on for any number of steps, and MaxStalls times after a button was clicked
EasyButton ==
    /\ pc = "easy_button"
    /\ LET filled == steps_completed \o FormSteps(arg, 1)
           branch == ButtonBranch(seen)
       IN  \/ /\ \E e \in CallRaises : Throw(e)
              /\ UNCHANGED steps_completed
           \/ /\ branch = "submit"
              /\ \/ /\ steps_completed' = Append(filled, <<"submitted">>)
                    /\ Return([status |-> "success",
                               message |-> "Application submitted successfully",
                               steps_completed |-> steps_completed'])
                 \/ /\ Stalls < MaxStalls \/ ButtonEntries = {}
                    /\ steps_completed' = filled
                    /\ Step("easy_loop")
           \/ /\ branch = "review"
              /\ steps_completed' = Append(filled, <<"review">>)
              /\ Step("easy_loop")
           \/ /\ branch = "next"
              /\ steps_completed' = Append(filled, <<"step", current_step>>)
              /\ Step("easy_loop")
           \/ /\ branch = "none"
              /\ steps_completed' = filled
              /\ Return([Incomplete EXCEPT !.steps_completed = filled])
    /\ UNCHANGED <<outside, limit, current_step, seen, op, note, url, scraping, log>>

\* ---------------------------------------------------------------- add_skill
SkillOverlayUrl == <<"https://www.linkedin.com/in/me/overlay/add-skill/", {}>>

\* variant: the overlay is opened whether the button was clicked or not
FallbackAlways(add_clicked) == TRUE

\* if not add_clicked: goto the overlay
FallbackNeeded(add_clicked) == ~add_clicked

\* add_skill: find and click the Add skill button
SkillAdd ==
    /\ pc = "skill_add"
    /\ \/ /\ log' = Append(log, <<"evaluate">>)
          /\ \E e \in CallRaises : Throw(e)
          /\ UNCHANGED seen
       \/ \E add_clicked \in BOOLEAN :
             /\ seen' = [add_clicked |-> add_clicked]
             /\ log' = log \o << <<"evaluate">> >>
                           \o (IF add_clicked THEN << <<"click">> >> ELSE <<>>)
             /\ Step(IF FallbackNeeded(add_clicked) THEN "skill_fallback" ELSE "skill_fill")
    /\ UNCHANGED <<outside, limit, current_step, steps_completed, op, note, url, scraping>>

\* add_skill: the button was not found, open the overlay by its URL
SkillFallback ==
    /\ pc = "skill_fallback"
    /\ \/ /\ log' = Append(log, <<"goto", SkillOverlayUrl>>)
          /\ \E e \in GotoRaises : Throw(e)
       \/ /\ log' = log \o << <<"goto", SkillOverlayUrl>>, <<"sleep", 20>> >>
          /\ Step("skill_fill")
    /\ UNCHANGED <<apart, op, note, url, scraping>>

\* add_skill: fill the input and click Save where they exist
SkillFill ==
    /\ pc = "skill_fill"
    /\ \/ /\ log' = Append(log, <<"sleep", 20>>)
          /\ \E e \in WaitRaises : Throw(e)
       \/ \E input \in BOOLEAN : \E save \in BOOLEAN :
             /\ log' = log \o << <<"sleep", 20>> >>
                           \o (IF input THEN << <<"fill">>, <<"sleep", 5>>, <<"press">>,
                                                <<"press">> >> ELSE <<>>)
                           \o << <<"sleep", 10>> >>
                           \o (IF save THEN << <<"click">>, <<"sleep", 20>> >> ELSE <<>>)
             /\ Return([status |-> "success", message |-> "Skill added successfully"])
    /\ UNCHANGED <<apart, op, note, url, scraping>>

\* -------------------------------------------------------- the tool wrappers
\* what the calls of a wrapper may raise
WrapperRaises(call) ==
    IF call = "ensure_authenticated" THEN {"AuthenticationError", "Error"} ELSE {"Error"}

\* the record handle_tool_error makes of an exception for the calling agent
handle_tool_error(e, name) == [error |-> e, tool |-> name]

\* the name each wrapper passes to handle_tool_error
HandlerName(t) == t

\* variant: except clause for the exceptions that are not classified only
ToolCatchesOthers(e) == ~IsLinkedInScraperException(e)

\* except Exception as e: every exception the calls raise is an Exception
ToolCatches(e) == e \in Classified \cup Others

\* variant: the page is used before progress is reported
ToolNextUnreported(step) ==
    CASE step = "auth"      -> "browser"
      [] step = "browser"   -> "op"
      [] step = "progress0" -> "op"

\* the statements of a wrapper before the call of the extractor, in order
ToolNext(step) ==
    CASE step = "auth"      -> "browser"
      [] step = "browser"   -> "progress0"
      [] step = "progress0" -> "op"

\* an exception e is raised inside the try of the wrapper
ToolRaise(e) ==
    /\ tpc' = "returned"
    /\ texc' = e
    /\ tret' = IF ToolCatches(e) THEN Value(handle_tool_error(e, HandlerName(tool)))
               ELSE Raised(e)

ToolStep(next) ==
    /\ tpc' = next
    /\ UNCHANGED <<texc, tret>>

\* the calling agent calls tool t
ToolCall ==
    /\ tpc = "idle"
    /\ \E t \in Tools : tool' = t
    /\ tpc' = "auth"
    /\ UNCHANGED <<text, stripped, machine, texc, tret, invocations>>

\* ensure_authenticated(); get_person_profile, get_company_profile and
\* search_people then parse their arguments
EnsureAuthenticated ==
    /\ tpc = "auth"
    /\ log' = Append(log, <<"ensure_authenticated">>)
    /\ \/ ToolStep(ToolNext("auth"))
       \/ \E e \in WrapperRaises("ensure_authenticated") : ToolRaise(e)
    /\ UNCHANGED <<text, stripped, invocations, tool, limit, current_step,
                   steps_completed, seen, op, pc, note, url, scraping, result, exc, extracted,
                   thrown, ret>>

\* browser = get_or_create_browser(); extractor = LinkedInExtractor(browser.page)
GetOrCreateBrowser ==
    /\ tpc = "browser"
    /\ log' = Append(log, <<"get_or_create_browser">>)
    /\ \/ ToolStep(ToolNext("browser"))
       \/ \E e \in WrapperRaises("get_or_create_browser") : ToolRaise(e)
    /\ UNCHANGED <<text, stripped, invocations, tool, limit, current_step,
                   steps_completed, seen, op, pc, note, url, scraping, result, exc, extracted,
                   thrown, ret>>

\* ctx.report_progress(progress=0, total=100, ...)
ReportProgress0 ==
    /\ tpc = "progress0"
    /\ log' = Append(log, <<"report_progress", 0>>)
    /\ \/ ToolStep(ToolNext("progress0"))
       \/ \E e \in WrapperRaises("report_progress") : ToolRaise(e)
    /\ UNCHANGED <<text, stripped, invocations, tool, limit, current_step,
                   steps_completed, seen, op, pc, note, url, scraping, result, exc, extracted,
                   thrown, ret>>

\* what the wrapper returns for the value r of the extractor method
ToolResult(t, r, unknown) ==
    IF t = "get_company_posts"
    THEN [url |-> url,
          sections |-> Stored(EmptyMap, "posts", r),
          pages_visited |-> <<url>>,
          sections_requested |-> <<"posts">>]
    ELSE IF t \in {"get_person_profile", "get_company_profile"} /\ unknown
    THEN [k \in DOMAIN r \cup {"unknown_sections"} |->
             IF k = "unknown_sections" THEN <<"unknown">> ELSE r[k]]
    ELSE r

\* the extractor method returned: the result is completed, progress 100 is
\* reported and the result returned
ReportProgress100 ==
    /\ tpc = "op"
    /\ pc = "done"
    /\ ret.kind = "value"
    /\ log' = Append(log, <<"report_progress", 100>>)
    /\ \/ /\ tpc' = "returned"
          /\ \E unknown \in BOOLEAN : tret' = Value(ToolResult(tool, ret.value, unknown))
          /\ UNCHANGED texc
       \/ \E e \in WrapperRaises("report_progress") : ToolRaise(e)
    /\ UNCHANGED <<text, stripped, invocations, tool, limit, current_step,
                   steps_completed, seen, op, pc, note, url, scraping, result, exc, extracted,
                   thrown, ret>>

\* the extractor method raised
ToolExcept ==
    /\ tpc = "op"
    /\ pc = "done"
    /\ ret.kind = "raise"
    /\ ToolRaise(ret.exception)
    /\ UNCHANGED <<text, stripped, machine, tool, invocations>>

\* ------------------------------------------------------------- list methods
\* for _ in range(min(limit // 10, 10)) in get_connections, min(limit // 10, 5)
\* in the others
ScrollCap(o) == IF o = "get_connections" THEN 10 ELSE 5

ScrollSteps(o, lim) ==
    IF lim \div 10 < ScrollCap(o) THEN lim \div 10 ELSE ScrollCap(o)

\* the optional arguments that add a query of the page before the scrolling
ListOptions(o) ==
    CASE o = "get_notifications"     -> {"filter_type"}
      [] o = "get_company_employees" -> {"role_filter", "location_filter"}
      [] OTHER                       -> {}

\* the queries each method makes between the first sleep and the scrolling
PrepareLog(o, given) ==
    CASE o = "get_connections"       -> <<>>
      [] o = "get_notifications"     ->
            IF given # {} THEN << <<"evaluate">>, <<"sleep", 20>> >> ELSE <<>>
      [] o = "get_saved_jobs"        -> << <<"evaluate">>, <<"sleep", 20>> >>
      [] o = "get_applied_jobs"      -> << <<"evaluate">>, <<"sleep", 20>> >>
      [] o = "get_company_jobs"      -> << <<"evaluate">> >>
      [] o = "get_company_employees" ->
            << <<"evaluate">> >>
               \o (IF "role_filter" \in given
                   THEN << <<"evaluate">>, <<"sleep", 20>> >> ELSE <<>>)
               \o (IF "location_filter" \in given
                   THEN << <<"evaluate">>, <<"sleep", 20>> >> ELSE <<>>)

CallList(o) ==
    /\ pc = "idle"
    /\ o \in ListOps
    /\ Invoked(o)
    /\ op' = o
    /\ url' = ActionUrl(o)
    /\ \E lim \in 0..MaxLimit : limit' = lim
    /\ \E given \in SUBSET ListOptions(o) : arg' = given
    /\ pc' = "goto"
    /\ UNCHANGED <<outside, current_step, steps_completed, seen, note, fields, idx, section, ex,
                   attempt, raws, once, result, exc, extracted, thrown, sections,
                   pages_visited, log, ret, waited>>

\* the queries before the scrolling; get_applied_jobs gives up when it
\* finds no Applied tab
ListPrepare ==
    /\ pc = "list_prepare"
    /\ \/ /\ log' = log \o PrepareLog(op, arg)
          /\ Step("list_scroll")
       \/ /\ PrepareLog(op, arg) # <<>>
          /\ log' = Append(log, <<"evaluate">>)
          /\ \/ \E e \in CallRaises : Throw(e)
             \/ /\ op = "get_applied_jobs"
                /\ Return(ErrorRecord("Could not find Applied tab"))
    /\ UNCHANGED <<apart, op, note, url, scraping>>

ScrollTo == <<"evaluate", "window.scrollTo">>

\* the scroll steps made so far
Scrolled == Cardinality({i \in DOMAIN log : log[i] = ScrollTo})

\* one turn of the scroll loop
ListScroll ==
    /\ pc = "list_scroll"
    /\ Scrolled < ScrollSteps(op, limit)
    /\ \/ /\ log' = log \o <<ScrollTo, <<"sleep", 10>> >>
          /\ Step("list_scroll")
       \/ /\ log' = Append(log, ScrollTo)
          /\ \E e \in CallRaises : Throw(e)
    /\ UNCHANGED <<apart, op, note, url, scraping>>

\* the cards a list page may show: TRUE for a card that has the fields the
\* script wants of an item
CardRows == UNION {[1..k -> BOOLEAN] : k \in 0..MaxCards}

\* variant: the loop stops one item late
FullLate(items, maxCount) == Len(items) > maxCount

\* if (items.length >= maxCount) break;
Full(items, maxCount) == Len(items) >= maxCount

\* the loop of the script over the cards, from card i on
RECURSIVE Collect(_, _, _, _)
Collect(cards, i, items, maxCount) ==
    IF i > Len(cards) \/ Full(items, maxCount) THEN items
    ELSE Collect(cards, i + 1, IF cards[i] THEN Append(items, i) ELSE items, maxCount)

\* what the script returns: get_connections goes over the plain list items
\* of the page when the cards gave nothing
Items(o, cards, plain, maxCount) ==
    LET items == Collect(cards, 1, <<>>, maxCount)
    IN  IF o = "get_connections" /\ items = <<>>
        THEN Collect(plain, 1, <<>>, maxCount)
        ELSE items

\* the scrolling is over: read the list (get_connections also reads the
\* total), return it with its length
ListRead ==
    /\ pc = "list_scroll"
    /\ Scrolled >= ScrollSteps(op, limit)
    /\ \/ /\ log' = Append(log, <<"evaluate">>)
          /\ \E e \in CallRaises : Throw(e)
          /\ UNCHANGED seen
       \/ \E cards \in CardRows : \E plain \in CardRows :
             LET items == Items(op, cards, plain, limit)
             IN  /\ plain # <<>> => (op = "get_connections" /\ \A i \in DOMAIN cards : ~cards[i])
                 /\ seen' = [cards |-> cards, plain |-> plain]
                 /\ log' = log \o << <<"evaluate">> >>
                               \o (IF op = "get_connections" THEN << <<"evaluate">> >>
                                   ELSE <<>>)
                 /\ Return([status |-> "success", count |-> Len(items), items |-> items])
    /\ UNCHANGED <<outside, limit, current_step, steps_completed, op, note, url, scraping>>

\* ------------------------------------------ concurrent invocations of a tool
\* Each invocation of get_job_details is a coroutine; the event loop runs
\* another one whenever one waits at an await.  All of them get the same page
\* from get_or_create_browser.
JobUrl(id) == <<"https://www.linkedin.com/jobs/view/{job_id}/", id>>

\* the calling agent invokes get_job_details(job_id)
TaskCall ==
    /\ \E t \in DOMAIN tasks : \E id \in 1..MaxJobs :
          /\ tasks[t].pc = "idle"
          /\ tasks' = [tasks EXCEPT ![t].pc = "auth", ![t].url = JobUrl(id)]
    /\ UNCHANGED <<text, stripped, machine, wrapper, location>>

\* the awaits that neither navigate nor read, and what follows each:
\* ensure_authenticated, get_or_create_browser (every invocation gets the one
\* page), report_progress(0), detect_rate_limit, wait_for_selector,
\* handle_modal_close, scroll_to_bottom, report_progress(100)
AfterAwait(p) ==
    CASE p = "auth"        -> "browser"
      [] p = "browser"     -> "progress0"
      [] p = "progress0"   -> "goto"
      [] p = "detect"      -> "wait"
      [] p = "wait"        -> "modal"
      [] p = "modal"       -> "scroll"
      [] p = "scroll"      -> "evaluate"
      [] p = "progress100" -> "returned"

\* an invocation goes from one await to the next; the event loop may run any
\* invocation that waits
TaskAwait ==
    /\ \E t \in DOMAIN tasks :
          /\ tasks[t].pc \in {"auth", "browser", "progress0", "detect", "wait", "modal",
                              "scroll", "progress100"}
          /\ tasks' = [tasks EXCEPT ![t].pc = AfterAwait(tasks[t].pc)]
    /\ UNCHANGED <<text, stripped, machine, wrapper, location>>

\* self._page.goto(url): the page now shows the URL of this invocation
TaskGoto ==
    /\ \E t \in DOMAIN tasks :
          /\ tasks[t].pc = "goto"
          /\ tasks' = [tasks EXCEPT ![t].pc = "detect"]
          /\ location' = tasks[t].url
    /\ UNCHANGED <<text, stripped, machine, wrapper>>

\* self._page.evaluate(...): the text read is that of the URL the page shows
TaskEvaluate ==
    /\ \E t \in DOMAIN tasks :
          /\ tasks[t].pc = "evaluate"
          /\ tasks' = [tasks EXCEPT ![t].pc = "progress100", ![t].read = location]
    /\ UNCHANGED <<text, stripped, machine, wrapper, location>>

\* ------------------------------------------------------------ specification
Init ==
    /\ text = EmptyText
    /\ stripped = NotRun
    /\ MachineIdle
    /\ NoWrapper
    /\ NoInvocations

Next ==
    \/ CallExtractPage
    \/ CallExtractOverlay
    \/ CallScrapePerson
    \/ CallScrapeCompany
    \/ CallScrapeJob
    \/ CallSearchJobs
    \/ CallSearchPosts
    \/ CallSearchPeople
    \/ CallConnectWithPerson
    \/ CallSendMessage
    \/ CallSaveJob
    \/ CallApplyToJob
    \/ CallEasyApplyComplete
    \/ CallAddSkill
    \/ Goto
    \/ DetectRateLimit
    \/ WaitForSelector
    \/ ModalClose
    \/ ScrollToBottom
    \/ Evaluate
    \/ Backoff
    \/ NextSection
    \/ SectionStore
    \/ SectionExcept
    \/ NavDelay
    \/ SingleStore
    \/ DirectReturn
    \/ Propagate
    \/ Settle
    \/ SaveJobClick
    \/ MessageWait
    \/ MessageFill
    \/ MessageSend
    \/ ConnectDialog
    \/ ConnectInvite
    \/ ConnectNote
    \/ ConnectVerify
    \/ ApplyProbe
    \/ ApplyModal
    \/ ApplyExternal
    \/ EasyClick
    \/ EasyExternal
    \/ EasyLoop
    \/ EasyConfirm
    \/ EasyButton
    \/ SkillAdd
    \/ SkillFallback
    \/ SkillFill

Spec == Init /\ [][Next]_vars

\* the tools: a wrapper around every call of an extractor method
InitTool ==
    /\ text = EmptyText
    /\ stripped = NotRun
    /\ MachineIdle
    /\ tool = "none"
    /\ tpc = "idle"
    /\ texc = "none"
    /\ tret = NoRet
    /\ NoInvocations

NextTool ==
    \/ ToolCall
    \/ EnsureAuthenticated
    \/ GetOrCreateBrowser
    \/ ReportProgress0
    \/ ReportProgress100
    \/ ToolExcept
    \/ CallExtractPage
    \/ CallScrapeCompany
    \/ CallScrapeJob
    \/ CallSearchJobs
    \/ CallSearchPosts
    \/ CallSearchPeople
    \/ CallConnectWithPerson
    \/ CallSendMessage
    \/ CallSaveJob
    \/ CallApplyToJob
    \/ CallEasyApplyComplete
    \/ CallAddSkill
    \/ Goto
    \/ DetectRateLimit
    \/ WaitForSelector
    \/ ModalClose
    \/ ScrollToBottom
    \/ Evaluate
    \/ Backoff
    \/ NextSection
    \/ SectionStore
    \/ SectionExcept
    \/ NavDelay
    \/ SingleStore
    \/ DirectReturn
    \/ Propagate
    \/ Settle
    \/ SaveJobClick
    \/ MessageWait
    \/ MessageFill
    \/ MessageSend
    \/ ConnectDialog
    \/ ConnectInvite
    \/ ConnectNote
    \/ ConnectVerify
    \/ ApplyProbe
    \/ ApplyModal
    \/ ApplyExternal
    \/ EasyClick
    \/ EasyExternal
    \/ EasyLoop
    \/ EasyConfirm
    \/ EasyButton
    \/ SkillAdd
    \/ SkillFallback
    \/ SkillFill

SpecTool == InitTool /\ [][NextTool]_vars

\* the list methods
NextList ==
    \/ \E o \in ListOps : CallList(o)
    \/ Goto
    \/ DetectRateLimit
    \/ Settle
    \/ ListPrepare
    \/ ListScroll
    \/ ListRead

SpecList == Init /\ [][NextList]_vars

\* invocations of get_job_details interleaved by the event loop
InitConcurrent ==
    /\ text = EmptyText
    /\ stripped = NotRun
    /\ MachineIdle
    /\ NoWrapper
    /\ tasks = [t \in 1..MaxTasks |-> [pc |-> "idle", url |-> NoUrl, read |-> NoUrl]]
    /\ location = NoUrl

NextConcurrent ==
    \/ TaskCall
    \/ TaskAwait
    \/ TaskGoto
    \/ TaskEvaluate

SpecConcurrent == InitConcurrent /\ [][NextConcurrent]_vars

\* ================================================================= properties
\* --------------------------------------------------- strip_linkedin_noise
\* the positions of `t` where some noise marker matches
MarkerStarts(t) == {i \in 1..Len(t) : \E n \in DOMAIN _NOISE_MARKERS : MatchAt(_NOISE_MARKERS[n], t, i)}

HasMarker(t) == MarkerStarts(t) # {}

FirstMarker(t) == CHOOSE i \in MarkerStarts(t) : \A j \in MarkerStarts(t) : i <= j

PrefixBeforeMarker(t) == SubSeq(t, 1, FirstMarker(t) - 1)

\* s is t without its leading and trailing whitespace
IsTrimOf(s, t) ==
    \E a \in 0..Len(t) : \E b \in a..Len(t) :
        /\ s = SubSeq(t, a + 1, b)
        /\ \A i \in 1..a : t[i] \in Whitespace
        /\ \A i \in (b + 1)..Len(t) : t[i] \in Whitespace
        /\ s # <<>> => s[1] \notin Whitespace /\ s[Len(s)] \notin Whitespace

\* C3 as stated: for a text containing a noise marker, strip_linkedin_noise
\* returns exactly the prefix before the earliest match of any marker
C3_ExactPrefix ==
    (stripped # NotRun /\ HasMarker(text)) => stripped = PrefixBeforeMarker(text)

\* C3 amended: for a text containing a noise marker, strip_linkedin_noise
\* returns the prefix before the earliest match of any marker (earliest over
\* all markers, not first in list order) with its leading and trailing
\* whitespace removed
C3_TrimmedPrefix ==
    (stripped # NotRun /\ HasMarker(text)) => IsTrimOf(stripped, PrefixBeforeMarker(text))

\* two markers match, the one listed later matches earlier in the text, and
\* the prefix before it ends in whitespace that is removed
C3_Witness ==
    /\ stripped # NotRun
    /\ Search("More", text) # 0
    /\ Search("Explore", text) # 0
    /\ Search("Explore", text) < Search("More", text)
    /\ stripped # <<>>
    /\ Len(stripped) < Len(PrefixBeforeMarker(text))

\* C4: for a text with no noise-marker match, strip_linkedin_noise returns
\* the text with leading and trailing whitespace removed and nothing else changed
C4_NoMarkerTrimmed ==
    (stripped # NotRun /\ ~HasMarker(text)) => IsTrimOf(stripped, text)

\* a text without marker, with whitespace at both ends and inside
C4_Witness ==
    /\ stripped # NotRun
    /\ ~HasMarker(text)
    /\ Len(text) = 5
    /\ text[1] \in Whitespace
    /\ text[5] \in Whitespace
    /\ text[3] \in Whitespace
    /\ Len(stripped) = 3

\* ------------------------------------------------------- the extract machine
Last(q) == q[Len(q)]

IsGoto(i, u) == log[i][1] = "goto" /\ log[i][2] = u

IsBackoff(i) == log[i][1] = "sleep" /\ log[i][2] = _RATE_LIMIT_RETRY_DELAY

Gotos(u) == {i \in DOMAIN log : IsGoto(i, u)}

\* the extraction path has returned or raised
Finished == pc \notin {"goto", "detect", "wait", "modal", "scroll", "evaluate", "backoff"}

\* a backoff was slept after the first navigation to the URL and before any other
BackoffBetween(u) ==
    \E g \in Gotos(u) : \E b \in DOMAIN log :
        /\ IsBackoff(b)
        /\ g < b
        /\ \A h \in Gotos(u) \ {g} : b < h

\* the attempt read text that has content, all of it noise
ChromeOnly(raw) == Strip(raw) # EmptyText /\ strip_linkedin_noise(raw) = EmptyText

\* at most two attempts for the URL, the second only after a sentinel
TwoAttemptsAtMost ==
    /\ attempt <= 2
    /\ Cardinality(Gotos(url)) <= 2
    /\ Cardinality(Gotos(url)) = IF pc = "goto" THEN attempt - 1 ELSE attempt
    /\ attempt = 2 => Len(once) >= 1 /\ once[1] = _RATE_LIMITED_MSG /\ BackoffBetween(url)

\* the first attempt is answered by the sentinel, a backoff and one more attempt
RetriedOnce ==
    /\ once[1] = _RATE_LIMITED_MSG
    /\ \/ pc = "backoff" /\ attempt = 1
       \/ attempt = 2 /\ BackoffBetween(url)
    /\ Finished => Cardinality(Gotos(url)) = 2

\* C1 as stated: a first attempt of extract_page whose raw text is non-empty
\* and whose noise-stripped text is empty is classified soft-rate-limited,
\* followed by the backoff and exactly one more attempt; at most two
\* attempts per URL, the second only after the sentinel
C1_NonEmptyRawRetried ==
    ex = "page" =>
        /\ TwoAttemptsAtMost
        /\ (Len(raws) >= 1 /\ raws[1] # EmptyText /\ strip_linkedin_noise(raws[1]) = EmptyText)
              => RetriedOnce

\* C1 amended: the same for a first attempt whose raw text has characters
\* other than whitespace and whose noise-stripped text is empty
C1_ChromeOnlyRetried ==
    ex = "page" =>
        /\ TwoAttemptsAtMost
        /\ (Len(raws) >= 1 /\ ChromeOnly(raws[1])) => RetriedOnce

\* extract_page has returned after a chrome-only first attempt and a second one
C1_Witness ==
    /\ op = "extract_page"
    /\ pc = "done"
    /\ Len(raws) = 2
    /\ raws[1] = <<"More">>
    /\ ret = Value(<<"x">>)
    /\ Cardinality(Gotos(url)) = 2

Returned == pc = "done" /\ ret.kind = "value"

\* C5: in a result of the scrapers and searches a section key is present
\* only with the non-empty text its extraction returned; a section whose
\* extraction returned "" is absent, a soft-rate-limited one holds the sentinel
C5_SectionsNonEmpty ==
    (Returned /\ op \in ScrapeOps \cup SingleOps) =>
        LET secs == ret.value.sections
        IN  /\ \A n \in DOMAIN secs :
                  /\ secs[n] # EmptyText
                  /\ \E i \in DOMAIN extracted :
                        extracted[i].section = n /\ extracted[i].value = secs[n]
            /\ \A i \in DOMAIN extracted :
                  /\ extracted[i].value = EmptyText => extracted[i].section \notin DOMAIN secs
                  /\ extracted[i].outcome = "blocked" =>
                        /\ extracted[i].section \in DOMAIN secs
                        /\ secs[extracted[i].section] = _RATE_LIMITED_MSG

\* scrape_person returned with one section blocked and one empty
C5_Witness ==
    /\ Returned
    /\ op = "scrape_person"
    /\ Len(extracted) = 2
    /\ extracted[1].outcome = "blocked"
    /\ extracted[2].outcome \in {"empty", "error"}
    /\ DOMAIN ret.value.sections = {"main_profile"}

\* C6 as stated: every operation lets a classified failure reach its caller
\* as the typed exception, the action methods included
C6_ClassifiedPropagates ==
    (pc = "done" /\ thrown # <<>> /\ IsLinkedInScraperException(Last(thrown)))
        => ret = Raised(Last(thrown))

\* C7 as stated: an extractor method turns a non-classified exception that
\* reaches it into a returned record with status "error", so none raises a
\* non-classified exception to its caller (search_posts and search_people
\* included)
C7_ErrorRecord ==
    pc = "done" =>
        /\ ret.kind = "raise" => IsLinkedInScraperException(ret.exception)
        /\ (thrown # <<>> /\ ~IsLinkedInScraperException(Last(thrown))
               /\ (op \in ActionOps \/ exc # "none"))
              => /\ ret.kind = "value"
                 /\ "status" \in DOMAIN ret.value
                 /\ ret.value.status = "error"

\* C8 as stated: every page-text extraction path retries once on a soft rate
\* limit and turns a non-classified exception into an empty result
C8_EveryPathRetriesAndIsolates ==
    (ex # "none" /\ Finished) =>
        /\ (Len(raws) >= 1 /\ ChromeOnly(raws[1])) => attempt = 2
        /\ (thrown # <<>> /\ ~IsLinkedInScraperException(Last(thrown)))
              => pc # "raised" /\ result = EmptyText

\* the three outcomes of an extraction that returned
Kind(e) ==
    IF e.outcome \in {"blocked", "empty", "error"} THEN e.outcome ELSE "content"

PageExtractions == {i \in DOMAIN extracted : extracted[i].path = "page"}

\* C9 as stated: no two of the outcomes blocked, empty and error of
\* extract_page yield the same return value
C9_ThreeOutcomesDistinct ==
    \A i \in PageExtractions : \A j \in PageExtractions :
        (Kind(extracted[i]) # "content" /\ Kind(extracted[j]) # "content"
            /\ Kind(extracted[i]) # Kind(extracted[j]))
        => extracted[i].value # extracted[j].value

\* C9 amended: extract_page returns the sentinel for blocked (after two
\* attempts) and the empty string for both empty and error, so blocked
\* differs from the other two and these two do not differ
C9_BlockedDistinct ==
    \A i \in PageExtractions :
        /\ Kind(extracted[i]) = "blocked" =>
              /\ extracted[i].value = _RATE_LIMITED_MSG
              /\ Len(extracted[i].raws) = 2
        /\ Kind(extracted[i]) \in {"empty", "error"} => extracted[i].value = EmptyText
        /\ \A j \in PageExtractions :
              (Kind(extracted[i]) = "blocked" /\ Kind(extracted[j]) \in {"empty", "error"})
                 => extracted[i].value # extracted[j].value

\* one call of extract_page ended blocked, another by an isolated exception
C9_Witness ==
    /\ op = "scrape_company"
    /\ Len(extracted) = 2
    /\ Kind(extracted[1]) = "blocked"
    /\ Kind(extracted[2]) = "error"

BasePage(o) == Url(BaseUrl(o), IF o = "scrape_person" THEN "/" ELSE "/about/")

\* C10: scrape_person and scrape_company visit the base page first whatever
\* flags are passed, and name the base section in sections_requested
C10_BaseSectionAlways ==
    op \in ScrapeOps =>
        /\ BaseFlag(op) \in fields
        /\ log # <<>> => IsGoto(1, BasePage(op))
        /\ Returned =>
              /\ Len(ret.value.pages_visited) >= 1
              /\ ret.value.pages_visited[1] = BasePage(op)
              /\ BaseName(op) \in Range(ret.value.sections_requested)

\* scrape_person called with no flag at all has returned
C10_Witness ==
    /\ op = "scrape_person"
    /\ arg = {}
    /\ Returned
    /\ ret.value.pages_visited = <<BasePage(op)>>

\* ------------------------------------------------------ _extract_page_once
\* the methods whose every call on the page belongs to an attempt of
\* _extract_page_once
PageOnlyOps == {"extract_page", "scrape_job", "search_jobs", "scrape_company"}

\* the call logged at position i comes right after the call the code of
\* _extract_page_once makes before it
FollowsInOrder(i) ==
    LET c == log[i][1]
        prev == IF i = 1 THEN "none" ELSE log[i - 1][1]
    IN  CASE c = "goto"               -> prev \in {"none", "sleep"}
          [] c = "detect_rate_limit"  -> prev = "goto"
          [] c = "wait_for_selector"  -> prev = "detect_rate_limit"
          [] c = "handle_modal_close" -> prev = "wait_for_selector"
          [] c = "scroll_to_bottom"   -> prev = "handle_modal_close"
          [] c = "evaluate"           -> prev = "scroll_to_bottom"
          [] OTHER                    -> c = "sleep"

\* C20: within _extract_page_once the order is navigate, hard-rate-limit
\* detection, wait for the main selector, modal dismissal, scroll, read text;
\* a timeout of the wait for the selector does not abort the attempt (the text
\* is still read unless a later call raises), a navigation timeout aborts it
\* and extract_page turns it into the empty string
C20_AttemptOrder ==
    op \in PageOnlyOps =>
        /\ \A i \in DOMAIN log : FollowsInOrder(i)
        /\ waited = "PlaywrightTimeoutError" =>
              /\ pc # "raised"
              /\ pc \notin {"goto", "detect", "wait"}
              /\ (Finished /\ thrown = <<>>) => Len(raws) = attempt
        /\ (pc = "returned" /\ Last(log)[1] = "goto") =>
              /\ thrown \in {<<e>> : e \in GotoRaises}
              /\ result = EmptyText
              /\ Len(raws) = attempt - 1

\* extract_page returned the text read by an attempt whose wait for the
\* main selector timed out
C20_Witness ==
    /\ op = "extract_page"
    /\ pc = "done"
    /\ attempt = 1
    /\ waited = "PlaywrightTimeoutError"
    /\ thrown = <<>>
    /\ ret = Value(<<"x">>)
    /\ Len(log) = 6

\* a navigation timeout of the second attempt was turned into ""
C20_NavTimeoutSeen ==
    /\ op = "extract_page"
    /\ pc = "done"
    /\ attempt = 2
    /\ thrown = <<"PlaywrightTimeoutError">>
    /\ Last(log)[1] = "goto"
    /\ ret = Value(EmptyText)

\* ------------------------------------------- extract_page and _extract_overlay
\* the backoffs slept
Backoffs == {i \in DOMAIN log : IsBackoff(i)}

\* the retry policy, from the outcomes of the attempts alone: the values q
\* the attempts returned and the exceptions e an attempt raised
PolicyAttempts(q, e) == IF q # <<>> /\ q[1] = _RATE_LIMITED_MSG THEN 2 ELSE 1

PolicyFinal(q, e) ==
    IF e = <<>> THEN Value(Last(q))
    ELSE IF IsLinkedInScraperException(Last(e)) THEN Raised(Last(e))
    ELSE Value(EmptyText)

\* C17: _extract_overlay mirrors extract_page: both follow one retry policy
\* that depends on the per-attempt outcomes only (clean text, empty raw text,
\* soft-rate-limited, classified exception, other exception), so for every
\* sequence of outcomes they make the same number of attempts, sleep the same
\* backoff and end with the same result or exception
C17_OverlayMirrorsPage ==
    op \in DirectOps =>
        /\ \A i \in DOMAIN once : once[i] = OnceResult(raws[i])
        /\ pc = "done" =>
              /\ Len(once) + Len(thrown) = attempt
              /\ Len(thrown) <= 1
              /\ attempt = PolicyAttempts(once, thrown)
              /\ Cardinality(Backoffs) = attempt - 1
              /\ \A i \in DOMAIN log : log[i][1] = "sleep" => IsBackoff(i)
              /\ ret = PolicyFinal(once, thrown)

\* _extract_overlay was soft-rate-limited in both attempts
C17_Witness ==
    /\ op = "_extract_overlay"
    /\ pc = "done"
    /\ once = <<_RATE_LIMITED_MSG, _RATE_LIMITED_MSG>>
    /\ Cardinality(Backoffs) = 1
    /\ ret = Value(_RATE_LIMITED_MSG)

\* --------------------------------------------------------- result statuses
\* C14 as stated: the status connect_with_person returns is always one of
\* success, error, already_connected, pending
C14_ConnectStatus ==
    (op = "connect_with_person" /\ Returned) =>
        ret.value.status \in {"success", "error", "already_connected", "pending"}

\* C15 as stated: easy_apply_complete returns a status that is always one of
\* success, external, incomplete, error
C15_EasyApplyStatus ==
    (op = "easy_apply_complete" /\ Returned) =>
        ret.value.status \in {"success", "external", "incomplete", "error"}

Clicks == {i \in DOMAIN log : log[i][1] = "click"}

\* the buttons of the page that are apply controls
Controls(buttons) == {i \in DOMAIN buttons : buttons[i] \in {"easy_apply", "apply"}}

\* the first apply control of the page is of this kind
FirstControlIs(kind) ==
    /\ "buttons" \in DOMAIN seen
    /\ \E i \in Controls(seen.buttons) :
          /\ seen.buttons[i] = kind
          /\ \A j \in Controls(seen.buttons) : i <= j

\* C16: apply_to_job returns one of modal_opened, clicked, external,
\* not_available, error; it clicks only when it found the Easy Apply button;
\* modal_opened and clicked are returned only after that click; a job whose
\* apply control is external gives status external (or error, when a call
\* raises) with nothing clicked
C16_ApplyToJob ==
    op = "apply_to_job" =>
        /\ Clicks # {} => FirstControlIs("easy_apply")
        /\ Cardinality(Clicks) <= 1
        /\ FirstControlIs("apply") => Clicks = {}
        /\ Returned =>
              /\ ret.value.status \in
                    {"modal_opened", "clicked", "external", "not_available", "error"}
              /\ ret.value.status \in {"modal_opened", "clicked"} =>
                    \E c \in Clicks : c < Len(log)
              /\ ret.value.status = "external" => Clicks = {} /\ FirstControlIs("apply")
              /\ FirstControlIs("apply") => ret.value.status \in {"external", "error"}

\* apply_to_job clicked the Easy Apply button, which came after another
\* button, and the modal opened
C16_Witness ==
    /\ op = "apply_to_job"
    /\ Returned
    /\ ret.value.status = "modal_opened"
    /\ seen.buttons = <<"other", "easy_apply">>
    /\ Cardinality(Clicks) = 1

\* apply_to_job on a page whose plain Apply button comes before an Easy
\* Apply button
C16_ExternalSeen ==
    /\ op = "apply_to_job"
    /\ Returned
    /\ ret.value.status = "external"
    /\ seen.buttons = <<"apply", "easy_apply">>
    /\ Clicks = {}

\* ------------------------------------------------------------- navigations
AllGotos == {i \in DOMAIN log : log[i][1] = "goto"}

SearchOps == {"search_jobs", "search_posts", "search_people"}

\* C12 as stated: apart from the soft-rate-limit retry of extract_page and
\* _extract_overlay no operation repeats a navigation: every action method
\* and every search method navigates exactly once per invocation, to its
\* target URL
C12_NavigatesOnce ==
    pc = "done" =>
        /\ op \in ActionOps =>
              /\ Cardinality(AllGotos) = 1
              /\ IsGoto(1, ActionUrl(op))
        /\ op \in SearchOps =>
              /\ AllGotos = Gotos(url)
              /\ Cardinality(AllGotos) = attempt
              /\ attempt = 2 => op = "search_jobs" /\ BackoffBetween(url)

\* C12 amended: no method navigates to the same URL twice except through the
\* soft-rate-limit retry; every action method and search method navigates to
\* its target URL exactly once (search_jobs once per attempt of extract_page),
\* and add_skill navigates once more, to its overlay URL, when its first
\* query did not find the Add skill button
C12_TargetOnceFallbackOnce ==
    pc = "done" =>
        /\ op \in ActionOps =>
              /\ Cardinality(Gotos(ActionUrl(op))) = 1
              /\ IsGoto(1, ActionUrl(op))
              /\ AllGotos \ Gotos(ActionUrl(op)) # {} =>
                    /\ op = "add_skill"
                    /\ seen = [add_clicked |-> FALSE]
                    /\ AllGotos \ Gotos(ActionUrl(op)) = Gotos(SkillOverlayUrl)
                    /\ Cardinality(Gotos(SkillOverlayUrl)) = 1
              /\ (op = "add_skill" /\ seen = [add_clicked |-> FALSE]) =>
                    Cardinality(AllGotos) = 2
        /\ op \in SearchOps =>
              /\ AllGotos = Gotos(url)
              /\ Cardinality(AllGotos) = attempt
              /\ attempt = 2 => op = "search_jobs" /\ BackoffBetween(url)

\* add_skill returned success after opening the overlay by its URL
C12_Witness ==
    /\ op = "add_skill"
    /\ Returned
    /\ ret.value.status = "success"
    /\ Cardinality(AllGotos) = 2
    /\ Cardinality(Gotos(SkillOverlayUrl)) = 1

\* -------------------------------------------------------- the tool wrappers
\* C13: a tool wrapper returns a value for every exception raised inside it,
\* by ensure_authenticated, get_or_create_browser, the progress reports or the
\* extractor method, classified or not: the exception is caught, passed to
\* handle_tool_error with the name of that tool, and never raised by the wrapper
C13_WrapperReturns ==
    /\ tret.kind # "raise"
    /\ (tpc = "op" /\ pc = "done" /\ ret.kind = "raise") => ENABLED ToolExcept
    /\ tpc = "returned" =>
          /\ tret.kind = "value"
          /\ (pc = "done" /\ ret.kind = "raise") => texc = ret.exception
          /\ texc # "none" => tret.value = handle_tool_error(texc, tool)
          /\ texc = "none" => pc = "done" /\ ret.kind = "value"

\* get_company_profile returned the record made of the RateLimitError that
\* scrape_company raised
C13_Witness ==
    /\ tool = "get_company_profile"
    /\ tpc = "returned"
    /\ ret = Raised("RateLimitError")
    /\ tret = Value(handle_tool_error("RateLimitError", "get_company_profile"))

WrapperCalls == {"ensure_authenticated", "get_or_create_browser", "report_progress"}

Progress == {i \in DOMAIN log : log[i][1] = "report_progress"}

\* C19: in a tool wrapper the steps come in the order ensure_authenticated,
\* get the browser page, report progress 0, run the extractor method, report
\* progress 100: nothing is done on the page before authentication was
\* checked, the progress reported never decreases, and progress 100 is
\* reported only if the extractor method returned without raising
C19_WrapperOrder ==
    /\ Len(log) >= 1 => log[1] = <<"ensure_authenticated">>
    /\ Len(log) >= 2 => log[2] = <<"get_or_create_browser">>
    /\ Len(log) >= 3 => log[3] = <<"report_progress", 0>>
    /\ op # "idle" => Len(log) >= 3
    /\ \A i \in 4..Len(log) :
          /\ log[i][1] \notin {"ensure_authenticated", "get_or_create_browser"}
          /\ log[i][1] = "report_progress" =>
                /\ log[i][2] = 100
                /\ i = Len(log)
                /\ pc = "done"
                /\ ret.kind = "value"
    /\ LET reports == Progress
       IN  \A i \in reports : \A j \in reports : i < j => log[i][2] <= log[j][2]
    /\ (tpc = "returned" /\ texc = "none") => Last(log) = <<"report_progress", 100>>

\* get_job_details went through all five steps and returned the result
C19_Witness ==
    /\ tool = "get_job_details"
    /\ tpc = "returned"
    /\ texc = "none"
    /\ tret = ret
    /\ Len(log) = 10
    /\ log[4][1] = "goto"
    /\ Last(log) = <<"report_progress", 100>>

\* ------------------------------------------------------------- list methods
\* C18: for every limit >= 0 a list method returns at most limit items, the
\* count it reports is the length of the list, and the scroll steps made
\* before the list is read number min(limit // 10, cap), cap being 10 for
\* get_connections and 5 for the others
C18_LimitRespected ==
    (op \in ListOps /\ Returned /\ ret.value.status = "success") =>
        /\ Len(ret.value.items) <= limit
        /\ ret.value.count = Len(ret.value.items)
        /\ LET cap == IF op = "get_connections" THEN 10 ELSE 5
               tens == limit \div 10
           IN  /\ Scrolled <= tens
               /\ Scrolled <= cap
               /\ Scrolled = tens \/ Scrolled = cap

\* get_connections with limit 2 on a page of three cards returned two
C18_Witness ==
    /\ op = "get_connections"
    /\ Returned
    /\ ret.value.status = "success"
    /\ limit = 2
    /\ seen.cards = <<TRUE, TRUE, TRUE>>
    /\ ret.value.items = <<1, 2>>
    /\ ret.value.count = 2
    /\ Scrolled = 0

\* the caps are reached: ten scroll steps in get_connections, five elsewhere
C18_CapSeen ==
    /\ op = "get_saved_jobs"
    /\ Returned
    /\ ret.value.status = "success"
    /\ limit = 120
    /\ Scrolled = 5

\* --------------------------------------------------- concurrent invocations
\* the invocation has navigated the page and has not yet read it
OnPage(t) == tasks[t].pc \in {"detect", "wait", "modal", "scroll", "evaluate"}

\* C11 as stated: no two operations are in progress on the shared page at
\* once: of two concurrent tool invocations one makes all its steps on the
\* page before the other makes any, so an extraction never reads the text of
\* a URL that another invocation navigated to
C11_OneOperationAtATime ==
    /\ \A t \in DOMAIN tasks : \A u \in DOMAIN tasks : (OnPage(t) /\ OnPage(u)) => t = u
    /\ \A t \in DOMAIN tasks : tasks[t].read # NoUrl => tasks[t].read = tasks[t].url

\* ------------------------------------------------- attempts that read nothing
\* the text the latest attempt read is empty or blank
BlankRead == raws # <<>> /\ Strip(Last(raws)) = EmptyText

\* C21: an attempt of extract_page whose raw text is empty or whitespace only
\* is not classified as a soft rate limit: "" is returned after that attempt,
\* no backoff is slept after it and no further navigation made; when it is the
\* first attempt the URL was navigated to once and no backoff was slept
C21_BlankNotRetried ==
    (ex = "page" /\ BlankRead) =>
        /\ Last(once) = EmptyText
        /\ Finished
        /\ attempt = Len(raws)
        /\ op \notin ActionOps => result = EmptyText
        /\ Len(raws) = 1 =>
              /\ Cardinality(Gotos(url)) = 1
              /\ \A g \in Gotos(url) : \A b \in DOMAIN log : IsBackoff(b) => b < g

\* extract_page has returned "" after one attempt that read a blank line
C21_Witness ==
    /\ op = "extract_page"
    /\ pc = "done"
    /\ raws = << <<"nl">> >>
    /\ attempt = 1
    /\ ret = Value(EmptyText)
    /\ Len(log) = 6

\* ------------------------------------------------ the sentinel of extract_page
\* attempt k of the extraction x was classified as soft-rate-limited: it read
\* text that has content, all of it noise
Limited(x, k) == k <= Len(x.raws) /\ ChromeOnly(x.raws[k])

\* C22 as stated: extract_page returns the sentinel if and only if its first
\* and its second attempt were both classified soft-rate-limited, and after a
\* first attempt classified soft-rate-limited it returns what the second
\* attempt yields
C22_SentinelIffBothLimited ==
    \A i \in PageExtractions :
        LET x == extracted[i]
        IN  /\ x.value = _RATE_LIMITED_MSG <=> (Limited(x, 1) /\ Limited(x, 2))
            /\ (Limited(x, 1) /\ x.outcome # "error") =>
                  /\ Len(x.raws) = 2
                  /\ x.value = OnceResult(x.raws[2])

\* ------------------------------------------------------------- pages_visited
\* the positions of page_map whose flag is among the fields
Chosen == {j \in DOMAIN PageMap(op) : PageMap(op)[j][1] \in fields}

\* position k of q holds the URL of the k-th chosen entry of page_map
InPageMapOrder(q) ==
    \A k \in DOMAIN q :
        \E j \in Chosen :
            /\ Cardinality({m \in Chosen : m < j}) = k - 1
            /\ q[k] = Url(BaseUrl(op), PageMap(op)[j][3])

\* a classified exception left the extraction in progress
ClassifiedThrown == thrown # <<>> /\ IsLinkedInScraperException(Last(thrown))

\* C23: scrape_person and scrape_company list in pages_visited the URL of
\* every selected section exactly once and in the order of page_map, whatever
\* the section gave (text, nothing, an exception that is not classified); a
\* classified exception of a section ends the scrape, which raises it and
\* returns no result
C23_PagesVisited ==
    op \in ScrapeOps =>
        /\ InPageMapOrder(pages_visited)
        /\ ClassifiedThrown => pc \in {"raised", "done"}
        /\ pc = "done" =>
              IF ClassifiedThrown
              THEN ret = Raised(Last(thrown))
              ELSE /\ ret.kind = "value"
                   /\ ret.value.pages_visited = pages_visited
                   /\ Len(pages_visited) = Cardinality(Chosen)

\* scrape_company has returned two pages visited, the first of a section that
\* failed with an exception that is not classified, the second of one that
\* gave nothing
C23_Witness ==
    /\ op = "scrape_company"
    /\ Returned
    /\ Len(extracted) = 2
    /\ extracted[1].outcome = "error"
    /\ extracted[2].outcome = "empty"
    /\ Len(ret.value.pages_visited) = 2
    /\ ret.value.sections = EmptyMap

\* the second section raised a classified exception after the first had
\* given text: the text is not returned
C23_PartialDropped ==
    /\ op \in ScrapeOps
    /\ pc = "done"
    /\ sections # EmptyMap
    /\ ret = Raised("RateLimitError")

\* ------------------------------------------------ the delay between sections
\* the navigation delays slept
NavDelays == {i \in DOMAIN log : log[i] = <<"sleep", _NAV_DELAY>>}

\* the navigations made
Navigations == {i \in DOMAIN log : log[i][1] = "goto"}

\* C24: in scrape_person and scrape_company every navigation to the page of
\* a further section comes right after a sleep of _NAV_DELAY, which follows
\* the end of the extraction before it, whether that extraction gave text,
\* nothing or an isolated exception; as many delays are slept as sections
\* were extracted; an entry of page_map whose flag is not selected is neither
\* navigated to nor waited for
C24_DelayBetweenSections ==
    op \in ScrapeOps =>
        LET gotos == Navigations
            delays == NavDelays
            pages == {Url(BaseUrl(op), PageMap(op)[j][3]) : j \in Chosen}
        IN  /\ \A i \in gotos :
                  /\ log[i][2] \in pages
                  /\ i > 1 =>
                        IF \A h \in gotos : h < i => log[h][2] # log[i][2]
                        THEN log[i - 1] = <<"sleep", _NAV_DELAY>>
                        ELSE log[i - 1] = <<"sleep", _RATE_LIMIT_RETRY_DELAY>>
            /\ \A i \in delays : i > 1 /\ log[i - 1][1] # "sleep"
            /\ Cardinality(delays) = Len(pages_visited) - (IF pc = "nav_delay" THEN 1 ELSE 0)
            /\ Returned => Cardinality(delays) = Cardinality(Chosen)

\* scrape_person has returned: the base page failed with an isolated
\* exception, the delay was slept, the overlay of the contact info was
\* extracted; the five detail pages between them were not selected
C24_Witness ==
    /\ op = "scrape_person"
    /\ Returned
    /\ arg = {"CONTACT_INFO"}
    /\ Len(extracted) = 2
    /\ extracted[1].outcome = "error"
    /\ extracted[2].outcome = "clean"
    /\ Cardinality(NavDelays) = 2

\* ------------------------------------------- the loop of easy_apply_complete
LoopPcs == {"easy_loop", "easy_confirm", "easy_button"}

\* C25, the state part: the loop has begun at most 10 iterations, and a
\* return that is neither a submission nor an error record has status
\* "incomplete" and the steps_completed recorded so far
LoopBounded ==
    op = "easy_apply_complete" =>
        /\ current_step <= 10
        /\ pc \in {"easy_confirm", "easy_button"} => current_step >= 1
        /\ (Returned /\ current_step >= 1) =>
              /\ ret.value.status \in {"success", "incomplete", "error"}
              /\ ret.value.status = "incomplete" =>
                    ret.value.steps_completed = steps_completed

\* C25, the step part: every step taken inside the loop returns, begins the
\* next iteration, or goes back to the head of the loop within the iteration
LoopAdvances ==
    (op = "easy_apply_complete" /\ pc \in LoopPcs) =>
        \/ pc' = "done"
        \/ current_step' = current_step + 1 /\ pc = "easy_loop"
        \/ current_step' = current_step /\ pc # "easy_loop" /\ pc' = "easy_loop"

C25_NextNeverAdvances ==
    /\ op = "easy_apply_complete"
    /\ Returned
    /\ ret.value.status = "incomplete"
    /\ Cardinality(Entries("step")) = 10

\* --------------------------------------------- success of easy_apply_complete
\* the clicks of a review or a next button recorded
OtherClicks == Cardinality(Entries("review") \cup Entries("step"))

\* C26, the state part: status "success" is returned only after the submit
\* button of the dialog was clicked, "submitted" being the last entry of
\* steps_completed, or after no dialog was found and the page text held a
\* confirmation
SuccessOnlyIf ==
    (op = "easy_apply_complete" /\ Returned /\ ret.value.status = "success") =>
        /\ ret.value.steps_completed = steps_completed
        /\ \/ /\ seen.found
              /\ seen.has_submit
              /\ steps_completed # <<>>
              /\ Last(steps_completed) = <<"submitted">>
              /\ Cardinality(Entries("submitted")) = 1
           \/ /\ seen = [found |-> FALSE, success_message |-> TRUE]
              /\ Entries("submitted") = {}

\* C26, the step part: in an iteration whose dialog offers a submit button
\* neither a review nor a next button is clicked
SubmitAlone ==
    (op = "easy_apply_complete" /\ pc = "easy_button" /\ seen.has_submit) =>
        OtherClicks' = OtherClicks

\* C26: easy_apply_complete returns "success" only if the enabled submit
\* button of the dialog was clicked in this invocation, with "submitted" the
\* last entry of steps_completed, or no dialog was found and the page text
\* contained a confirmation; when the dialog offers a submit button, no
\* review or next button is clicked in that iteration
C26_SuccessOnlyAfterSubmit == []SuccessOnlyIf /\ [][SubmitAlone]_vars

\* the dialog offered submit, review and next together; submit was clicked
\* after the form was filled in, and "success" returned
C26_Witness ==
    /\ op = "easy_apply_complete"
    /\ Returned
    /\ ret.value.status = "success"
    /\ seen = [found |-> TRUE, has_submit |-> TRUE, has_review |-> TRUE, has_next |-> TRUE]
    /\ arg = Range(FormKinds)
    /\ Len(steps_completed) = 4
    /\ Last(steps_completed) = <<"submitted">>

\* "success" was returned for a confirmation in the page text, the dialog
\* having gone after a next button was clicked
C26_ConfirmationSeen ==
    /\ op = "easy_apply_complete"
    /\ Returned
    /\ ret.value.status = "success"
    /\ seen = [found |-> FALSE, success_message |-> TRUE]
    /\ steps_completed = << <<"step", 1>> >>

====
